---- MODULE Spec2Model ----
(***************************************************************************)
(* A model of the eForm builder's repair / validate / compose pipeline:    *)
(*   app/repair.py      auto_repair_cir and its helpers                    *)
(*   app/validators.py  validate_and_normalize_cir and its helpers         *)
(*   app/cir_schema.py  CIR_JSON_SCHEMA (as checked by Draft202012Validator)*)
(*   app/composer.py    compose_xml and its helpers                        *)
(*                                                                         *)
(* Python strings are TLA+ strings, read character by character with       *)
(* SubSeq.  A JSON value is a tagged record [t |-> tag, v |-> payload]; a   *)
(* Python dict is a function from its keys to JSON values.                 *)
(***************************************************************************)
EXTENDS Integers, Sequences, FiniteSets, TLC

VARIABLES pc, input, cir, prev, repairs, ok, issues, schema_errors, root, xml, response, reqs

vars == <<pc, input, cir, prev, repairs, ok, issues, schema_errors, root, xml, response, reqs>>

(***************************************************************************)
(* Strings                                                                 *)
(***************************************************************************)
\* s[a-1:b] of Python: the characters a..b that exist
Sub(s, a, b) == SubSeq(s, IF a < 1 THEN 1 ELSE a, IF b > Len(s) THEN Len(s) ELSE b)

Char(s, i) == Sub(s, i, i)

CharsOf(s) == {Char(s, i) : i \in 1..Len(s)}

LowerLetters == "abcdefghijklmnopqrstuvwxyz"

UpperLetters == "ABCDEFGHIJKLMNOPQRSTUVWXYZ"

Letters == CharsOf(LowerLetters \o UpperLetters)

Digits == {"0", "1", "2", "3", "4", "5", "6", "7", "8", "9"}

\* [A-Za-z0-9_], the class \w of an ASCII pattern
WordChars == Letters \cup Digits \cup {"_"}

\* what str.strip() and \s take for white space (the ASCII part)
Space == {" ", "\t", "\n", "\r", "\f"}

From(s, i) == Sub(s, i, Len(s))

StartsWith(s, p) == Sub(s, 1, Len(p)) = p

\* Python's  sub in s
Contains(s, sub) == \E i \in 1..(Len(s) - Len(sub) + 1) : SubSeq(s, i, i + Len(sub) - 1) = sub

RECURSIVE LStrip(_, _)
LStrip(s, cs) == IF s # "" /\ Char(s, 1) \in cs THEN LStrip(From(s, 2), cs) ELSE s

RECURSIVE RStrip(_, _)
RStrip(s, cs) ==
    IF s # "" /\ Char(s, Len(s)) \in cs THEN RStrip(Sub(s, 1, Len(s) - 1), cs) ELSE s

\* str.strip(chars)
StripChars(s, cs) == RStrip(LStrip(s, cs), cs)

\* str.strip()
Strip(s) == StripChars(s, Space)

\* the character at the place c has in the alphabet from, taken from the alphabet to
MapChar(c, from, to) ==
    IF \E i \in 1..Len(from) : Char(from, i) = c
    THEN Char(to, CHOOSE i \in 1..Len(from) : Char(from, i) = c)
    ELSE c

UpperChar(c) == MapChar(c, LowerLetters, UpperLetters)

LowerChar(c) == MapChar(c, UpperLetters, LowerLetters)

RECURSIVE Upper(_)
Upper(s) == IF s = "" THEN "" ELSE UpperChar(Char(s, 1)) \o Upper(From(s, 2))

RECURSIVE Lower(_)
Lower(s) == IF s = "" THEN "" ELSE LowerChar(Char(s, 1)) \o Lower(From(s, 2))

\* the last index of the run of characters of cs that starts at i (i - 1 when there is none)
RECURSIVE RunEnd(_, _, _)
RunEnd(s, i, cs) == IF i <= Len(s) /\ Char(s, i) \in cs THEN RunEnd(s, i + 1, cs) ELSE i - 1

\* the first index at or after i where s has the character c, 0 when there is none
RECURSIVE Find(_, _, _)
Find(s, c, i) == IF i > Len(s) THEN 0 ELSE IF Char(s, i) = c THEN i ELSE Find(s, c, i + 1)

\* str.split(sep) for a one-character separator; i is where sep first occurs
RECURSIVE Split(_, _), SplitAt(_, _, _)
SplitAt(s, sep, i) ==
    IF i = 0 THEN <<s>> ELSE <<Sub(s, 1, i - 1)>> \o Split(From(s, i + 1), sep)

Split(s, sep) == SplitAt(s, sep, Find(s, sep, 1))

\* sep.join(parts)
RECURSIVE Join(_, _)
Join(parts, sep) ==
    IF parts = <<>> THEN ""
    ELSE IF Len(parts) = 1 THEN parts[1]
    ELSE parts[1] \o sep \o Join(Tail(parts), sep)

(***************************************************************************)
(* repair.py: regex helpers and small utils                                *)
(***************************************************************************)
\* TOKEN = \b([A-Za-z_][A-Za-z0-9_]{0,63})\b : the longest identifier it takes
TokenMax == 64

\* _EQ_SINGLE.sub("==", e): a "=" neither preceded by one of = ! < > nor followed by "="
RECURSIVE EqSingleSub(_, _)
EqSingleSub(e, i) ==
    IF i > Len(e) THEN ""
    ELSE (IF /\ Char(e, i) = "="
             /\ (i = 1 \/ Char(e, i - 1) \notin {"=", "!", "<", ">"})
             /\ (i = Len(e) \/ Char(e, i + 1) # "=")
          THEN "==" ELSE Char(e, i)) \o EqSingleSub(e, i + 1)

\* CURLY_REF.sub(r"\1", e): {ident} -> ident; j is where the identifier after e[i] ends
RECURSIVE CurlyRefSub(_, _), CurlyRefAt(_, _, _)
CurlyRefAt(e, i, j) ==
    IF Char(e, i) = "{" /\ j > i /\ j < Len(e) /\ Char(e, j + 1) = "}"
    THEN Sub(e, i + 1, j) \o CurlyRefSub(e, j + 2)
    ELSE Char(e, i) \o CurlyRefSub(e, i + 1)

CurlyRefSub(e, i) == IF i > Len(e) THEN "" ELSE CurlyRefAt(e, i, RunEnd(e, i + 1, WordChars))

\* a run of digits, single underscores allowed between digits (Python's float())
RECURSIVE DigitPartEnd(_, _)
DigitPartEnd(s, i) ==
    IF i <= Len(s) /\ Char(s, i) \in Digits
    THEN IF i + 1 <= Len(s) /\ Char(s, i + 1) \in Digits THEN DigitPartEnd(s, i + 1)
         ELSE IF i + 2 <= Len(s) /\ Char(s, i + 1) = "_" /\ Char(s, i + 2) \in Digits
              THEN DigitPartEnd(s, i + 2)
              ELSE i
    ELSE i - 1

\* the text accepted by float(): [sign] (inf | infinity | nan | decimal [exponent]).
\* b: where the text after the sign starts; i1: end of the integer part;
\* m: end of the mantissa; eb: where the exponent's digits start.
FloatSignEnd(s) == IF s # "" /\ Char(s, 1) \in {"+", "-"} THEN 2 ELSE 1

FloatFracEnd(s, i1) ==
    IF i1 + 1 <= Len(s) /\ Char(s, i1 + 1) = "." THEN DigitPartEnd(s, i1 + 2) ELSE i1

FloatExpBegin(s, m) ==
    IF m + 2 <= Len(s) /\ Char(s, m + 2) \in {"+", "-"} THEN m + 3 ELSE m + 2

FloatExpOk(s, eb) == Len(s) >= eb /\ DigitPartEnd(s, eb) = Len(s)

FloatTail(s, m) ==
    IF m + 1 <= Len(s) /\ Char(s, m + 1) \in {"e", "E"}
    THEN FloatExpOk(s, FloatExpBegin(s, m))
    ELSE m = Len(s)

FloatMantissa(s, b, i1, m) == (i1 >= b \/ m >= i1 + 2) /\ FloatTail(s, m)

FloatBody(s, b) ==
    \/ Lower(From(s, b)) \in {"inf", "infinity", "nan"}
    \/ FloatMantissa(s, b, DigitPartEnd(s, b), FloatFracEnd(s, DigitPartEnd(s, b)))

IsFloatText(s0) == FloatBody(Strip(s0), FloatSignEnd(Strip(s0)))

\* _is_number_literal
_is_number_literal(s) == IsFloatText(s)

StripAll(parts) == [i \in 1..Len(parts) |-> Strip(parts[i])]

\* _split_csv
_split_csv(s) == StripAll(SelectSeq(Split(s, ","), LAMBDA t : t # "" /\ Strip(t) # ""))

\* the fragments _looks_like_default_text searches for
bad_fragments ==
    {"@pt", "@patient", "@ptCpp.", "ScriptUtil.", "firstTime", "daysSinceLastCompleted",
     "lastCompletedTag", "pt.", "$$"}

LooksDefaultStripped(s) == StartsWith(s, "@") \/ \E frag \in bad_fragments : Contains(s, frag)

\* a faulty macro test, which takes every text for a prompt
NeverDefaultText(s0) == FALSE

\* _looks_like_default_text
_looks_like_default_text(s0) == IF s0 = "" THEN FALSE ELSE LooksDefaultStripped(Strip(s0))

\* SUM_CALL = (?i)\bSUM\s*\((.+)\) : where the first match starts, 0 when there is none.
\* "(.+)\)" is greedy: the match runs to the last ")" of the text.
RECURSIVE LastFrom(_, _, _)
LastFrom(f, c, k) == IF k < 1 THEN 0 ELSE IF Char(f, k) = c THEN k ELSE LastFrom(f, c, k - 1)

LastParen(f) == LastFrom(f, ")", Len(f))

SumOpenParen(f, i) == RunEnd(f, i + 3, Space) + 1

\* o is where the "(" of a SUM at i has to be
SumMatch(f, i, o) ==
    /\ i + 2 <= Len(f)
    /\ Upper(Sub(f, i, i + 2)) = "SUM"
    /\ (i = 1 \/ Char(f, i - 1) \notin WordChars)
    /\ o <= Len(f)
    /\ Char(f, o) = "("
    /\ LastParen(f) >= o + 2

SumMatchesAt(f, i) == SumMatch(f, i, SumOpenParen(f, i))

RECURSIVE SumScan(_, _)
SumScan(f, i) ==
    IF i > Len(f) THEN 0 ELSE IF SumMatchesAt(f, i) THEN i ELSE SumScan(f, i + 1)

SumStart(f) == SumScan(f, 1)

CurlyAll(parts) == [k \in 1..Len(parts) |-> CurlyRefSub(parts[k], 1)]

\* the replacement _fix_sum builds from the references inside SUM( )
SumRepl(refs, section_refs) ==
    IF Len(refs) = 1
    THEN IF refs[1] \in section_refs
         THEN "ScriptUtil.sum(" \o refs[1] \o ")"
         ELSE refs[1] \o ".p"
    ELSE Join([k \in 1..Len(refs) |-> refs[k] \o ".p"], " + ")

\* SUM_CALL.sub(repl, f) for the match that starts at i (0: no match)
FixSumAt(f, i, section_refs) ==
    IF i = 0 THEN f
    ELSE Sub(f, 1, i - 1)
         \o SumRepl(CurlyAll(_split_csv(Sub(f, SumOpenParen(f, i) + 1, LastParen(f) - 1))),
                    section_refs)
         \o From(f, LastParen(f) + 1)

FixSumStripped(f, section_refs) == FixSumAt(f, SumStart(f), section_refs)

\* _fix_sum, for a formula that is a string
_fix_sum(formula, item_refs, section_refs) ==
    IF formula = "" THEN formula ELSE FixSumStripped(Strip(formula), section_refs)

\* _decide_dot, for the right-hand side a comparison matched
_decide_dot(rhs) ==
    IF _is_number_literal(StripChars(StripChars(Strip(rhs), {"'"}), {"\""})) THEN ".p" ELSE ".r"

\* re.match(r"\s*(==|!=|>=|<=|>|<)\s*([^)&|]+)", tail): group 2, or "" when no match.
\* c is where the comparator starts; the right-hand side takes at least one character.
CompStart(tail) == RunEnd(tail, 1, Space) + 1

CompLen(tail, c) ==
    IF Sub(tail, c, c + 1) \in {"==", "!=", ">=", "<="} THEN 2
    ELSE IF Char(tail, c) \in {">", "<"} THEN 1 ELSE 0

NotStop(tail) == CharsOf(tail) \ {")", "&", "|"}

\* the right-hand side from a on: w ends the white space, e the run of [^)&|];
\* \s* gives back one white space when nothing else is left
RhsBegin(w, e) == IF w + 1 <= e THEN w + 1 ELSE w

RhsFrom(tail, a, b, e) == IF e >= a /\ b >= a THEN Sub(tail, b, e) ELSE ""

rhsOf(tail, a) ==
    RhsFrom(tail, a, RhsBegin(RunEnd(tail, a, Space), RunEnd(tail, a, NotStop(tail))),
            RunEnd(tail, a, NotStop(tail)))

\* r is the right-hand side after the longest comparator; a two-character comparator
\* with nothing after it backtracks to its first character
CompPick(tail, c, clen, r) ==
    IF r # "" THEN r
    ELSE IF clen = 2 /\ Char(tail, c) \in {">", "<"} THEN rhsOf(tail, c + 1)
    ELSE ""

CompRhsAt(tail, c, clen) ==
    IF clen = 0 THEN "" ELSE CompPick(tail, c, clen, rhsOf(tail, c + clen))

CompRhs(tail) == CompRhsAt(tail, CompStart(tail), CompLen(tail, CompStart(tail)))

\* what repl appends to a known, unqualified ref; rhs is CompRhs(tail)
ReplDot(tail, rhs) ==
    IF rhs # "" THEN _decide_dot(rhs)
    ELSE IF Char(tail, CompStart(tail)) \in {"+", "-", "*", "/"} THEN ".p"
    ELSE ".r"

\* the replacement _normalize_expr.repl makes for the token ref followed by tail
repl(ref, tail, known_refs) ==
    IF ref \notin known_refs THEN ref
    ELSE IF StartsWith(tail, ".p") \/ StartsWith(tail, ".r") THEN ref
    ELSE ref \o ReplDot(tail, CompRhs(tail))

\* TOKEN.sub(repl, e); j is where the run of word characters that starts at i ends
RECURSIVE TokenSub(_, _, _), TokenAt(_, _, _, _)
TokenAt(e, i, j, known_refs) ==
    (IF Char(e, i) \notin Digits /\ j - i + 1 <= TokenMax
     THEN repl(Sub(e, i, j), From(e, j + 1), known_refs)
     ELSE Sub(e, i, j)) \o TokenSub(e, j + 1, known_refs)

TokenSub(e, i, known_refs) ==
    IF i > Len(e) THEN ""
    ELSE IF Char(e, i) \in WordChars
         THEN TokenAt(e, i, RunEnd(e, i, WordChars), known_refs)
         ELSE Char(e, i) \o TokenSub(e, i + 1, known_refs)

\* _normalize_expr, for an expression that is a string
_normalize_expr(expr, known_refs) ==
    IF expr = "" THEN expr
    ELSE TokenSub(EqSingleSub(CurlyRefSub(expr, 1), 1), 1, known_refs)

(***************************************************************************)
(* JSON values: what json.loads builds, and what the code makes of them     *)
(***************************************************************************)
Null == [t |-> "null"]

Str(s) == [t |-> "str", v |-> s]

Bool(b) == [t |-> "bool", v |-> b]

Num(n) == [t |-> "int", v |-> n]

\* a Python float: its whole value when the text it was read from is plain digits
\* (whole), else the text itself, lower-cased (lit)
Float(whole, lit) == [t |-> "float", v |-> [whole |-> whole, lit |-> lit]]

Obj(f) == [t |-> "obj", v |-> f]

List(l) == [t |-> "list", v |-> l]

EmptyObj == Obj(<<>>)

IsNull(x) == x.t = "null"

IsStr(x) == x.t = "str"

IsObj(x) == x.t = "obj"

IsList(x) == x.t = "list"

\* isinstance(x, bool)
IsBool(x) == x.t = "bool"

\* Python's truth value of x
Truthy(x) ==
    CASE x.t = "null"  -> FALSE
      [] x.t = "bool"  -> x.v
      [] x.t = "int"   -> x.v # 0
      [] x.t = "float" -> x.v.whole # 0 \/ x.v.lit # ""
      [] x.t = "str"   -> x.v # ""
      [] x.t = "list"  -> x.v # <<>>
      [] x.t = "obj"   -> DOMAIN x.v # {}

\* a or b
Or(a, b) == IF Truthy(a) THEN a ELSE b

\* key in d
Has(d, k) == k \in DOMAIN d.v

\* d.get(k)
Get(d, k) == IF k \in DOMAIN d.v THEN d.v[k] ELSE Null

\* d[k] = x
Put(d, k, x) == Obj([j \in DOMAIN d.v \cup {k} |-> IF j = k THEN x ELSE d.v[j]])

\* x in (None, "")
NoneOrEmpty(x) == x = Null \/ x = Str("")

\* hash(x) raises TypeError
Unhashable(x) == x.t \in {"list", "obj"}

\* "for ch in xs" or "x.get" on what the loop yields raises: xs is truthy and no list
\* (a number is not iterable; a string yields characters and a dict yields keys, none of
\* which has .get)
NotAList(xs) == Truthy(xs) /\ ~IsList(xs)

\* xs or [], as a sequence, for xs that is falsy or a list
Elems(xs) == IF IsList(xs) THEN xs.v ELSE <<>>

\* the whole value of a text of digits (underscores between digits skipped)
RECURSIVE DigitsValue(_, _)
DigitsValue(s, acc) ==
    IF s = "" THEN acc
    ELSE IF Char(s, 1) = "_" THEN DigitsValue(From(s, 2), acc)
    ELSE DigitsValue(From(s, 2), 10 * acc + (Find("0123456789", Char(s, 1), 1) - 1))

\* float(s) for the stripped text s, whose part after the sign is body
FloatOfText(s, body) ==
    IF body # "" /\ CharsOf(body) \subseteq (Digits \cup {"_"})
    THEN Float((IF StartsWith(s, "-") THEN -1 ELSE 1) * DigitsValue(body, 0), "")
    ELSE Float(0, Lower(s))

FloatOfStripped(s) == FloatOfText(s, From(s, FloatSignEnd(s)))

\* float(s), for a text float() accepts
FloatOf(s0) == FloatOfStripped(Strip(s0))

(***************************************************************************)
(* repair.py: the tree passes                                              *)
(***************************************************************************)
\* ch.get("kind") or ("section" if ch.get("type") == "SECTION" else "item")
ChildKind(ch) ==
    Or(Get(ch, "kind"), IF Get(ch, "type") = Str("SECTION") THEN Str("section") ELSE Str("item"))

\* a ref that is truthy and cannot be put in a set or used as a key
BadRef(node) == Truthy(Get(node, "ref")) /\ Unhashable(Get(node, "ref"))

RECURSIVE CollectRaises(_), CollectChildRaises(_)
\* the loop body of _collect_refs raises on child ch
CollectChildRaises(ch) ==
    /\ Truthy(ch)
    /\ \/ ~IsObj(ch)
       \/ /\ IsObj(ch)
          /\ IF ChildKind(ch) = Str("section") THEN CollectRaises(ch) ELSE BadRef(ch)

\* _collect_refs raises on this section
CollectRaises(section) ==
    /\ Truthy(section)
    /\ \/ ~IsObj(section)
       \/ /\ IsObj(section)
          /\ \/ BadRef(section)
             \/ NotAList(Get(section, "items"))
             \/ \E i \in 1..Len(Elems(Get(section, "items"))) :
                  CollectChildRaises(Elems(Get(section, "items"))[i])

RECURSIVE CollectKinds(_), CollectKid(_, _)
\* _collect_refs: the child as it leaves it; c is the child with its kind set
CollectKid(ch, c) ==
    IF ~Truthy(ch) THEN ch
    ELSE IF ChildKind(ch) = Str("section") THEN CollectKinds(c) ELSE c

\* _collect_refs: the section as it leaves it (every child visited has its kind set)
CollectKinds(section) ==
    IF Truthy(section) /\ IsList(Get(section, "items")) /\ Truthy(Get(section, "items"))
    THEN Put(section, "items",
             List([i \in 1..Len(Get(section, "items").v) |->
                     CollectKid(Get(section, "items").v[i],
                                Put(Get(section, "items").v[i], "kind",
                                    ChildKind(Get(section, "items").v[i])))]))
    ELSE section

\* the ref of a node as a set: the ref when it is a non-empty string
RefSet(node) ==
    IF IsStr(Get(node, "ref")) /\ Truthy(Get(node, "ref")) THEN {Get(node, "ref").v} ELSE {}

RECURSIVE SectionRefs(_), ChildSectionRefs(_)
ChildSectionRefs(ch) ==
    IF Truthy(ch) /\ ChildKind(ch) = Str("section") THEN SectionRefs(ch) ELSE {}

\* _collect_refs: the strings it adds to section_refs
SectionRefs(section) ==
    IF ~Truthy(section) THEN {}
    ELSE RefSet(section)
         \cup UNION {ChildSectionRefs(Elems(Get(section, "items"))[i]) :
                        i \in 1..Len(Elems(Get(section, "items")))}

RECURSIVE ItemRefs(_), ChildItemRefs(_)
ChildItemRefs(ch) ==
    IF ~Truthy(ch) THEN {}
    ELSE IF ChildKind(ch) = Str("section") THEN ItemRefs(ch)
    ELSE RefSet(ch)

\* _collect_refs: the strings among the keys of item_types
ItemRefs(section) ==
    IF ~Truthy(section) THEN {}
    ELSE UNION {ChildItemRefs(Elems(Get(section, "items"))[i]) :
                   i \in 1..Len(Elems(Get(section, "items")))}

\* the keys _unify_section_attrs merges into the attribute bag
SectionAttrKeys ==
    {"subcategory", "headerStyle", "expandIf", "showIf", "makeNoteIf", "flag", "noteIndex",
     "groupItems", "quoteAnswers", "ownLine"}

\* _unify_section_attrs raises: "attributes" is truthy and has no .get
UnifyRaises(sec) == Truthy(Get(sec, "attributes")) /\ ~IsObj(Get(sec, "attributes"))

\* _unify_section_attrs.pick
pick(attrs, sec, key) ==
    IF ~NoneOrEmpty(Get(attrs, key)) THEN Get(attrs, key) ELSE Get(sec, key)

\* attrs.get(key) if attrs.get(key) is not None else sec.get(key)
PickFlag(attrs, sec, key) == IF Get(attrs, key) # Null THEN Get(attrs, key) ELSE Get(sec, key)

\* _unify_section_attrs.merged
Merged(attrs, sec, is_first) ==
    [k \in SectionAttrKeys |->
        IF k = "subcategory"
        THEN Or(pick(attrs, sec, k), IF is_first THEN Str("QUESTIONNAIRE") ELSE Null)
        ELSE IF k \in {"groupItems", "quoteAnswers", "ownLine"} THEN PickFlag(attrs, sec, k)
        ELSE pick(attrs, sec, k)]

\* {k: v for k, v in merged.items() if v not in (None, "")}
DropEmpty(merged) ==
    Obj([k \in {j \in DOMAIN merged : ~NoneOrEmpty(merged[j])} |-> merged[k]])

\* a faulty merge, which takes every Section for the first one
UnifyAsFirst(sec, is_first) ==
    Put(sec, "attributes", DropEmpty(Merged(Or(Get(sec, "attributes"), EmptyObj), sec, TRUE)))

\* _unify_section_attrs
_unify_section_attrs(sec, is_first) ==
    Put(sec, "attributes", DropEmpty(Merged(Or(Get(sec, "attributes"), EmptyObj), sec, is_first)))

\* (item.get("type") or "").upper()
TypeUpper(item) == Upper(Or(Get(item, "type"), Str("")).v)

\* _promote_label_and_notes raises: type.upper() on a value that is no string, or
\* text.strip() of a LABEL whose text is no string
PromoteRaises(item) ==
    \/ Truthy(Get(item, "type")) /\ ~IsStr(Get(item, "type"))
    \/ /\ TypeUpper(item) = "LABEL"
       /\ Truthy(Get(item, "text")) /\ ~IsStr(Get(item, "text"))
       /\ ~Truthy(Get(item, "label"))

\* item["label"] = t; item["text"] = None
MoveTextToLabel(item, t) == Put(Put(item, "label", Str(t)), "text", Null)

\* the body of step 1 for the stripped text t
PromoteStripped(item, t) ==
    IF t # "" /\ ~_looks_like_default_text(t) THEN MoveTextToLabel(item, t) ELSE item

\* _promote_label_and_notes, step 1: text -> label for a visible prompt
PromoteText(item) ==
    IF ~Truthy(Get(item, "label")) /\ IsStr(Get(item, "text"))
    THEN PromoteStripped(item, Strip(Get(item, "text").v))
    ELSE item

\* _promote_label_and_notes, the LABEL branch: text -> label, macro or not
PromoteLabelItem(item, itype) ==
    IF itype = "LABEL" /\ Truthy(Get(item, "text")) /\ ~Truthy(Get(item, "label"))
    THEN MoveTextToLabel(item, Strip(Get(item, "text").v))
    ELSE item

\* item["cNote"] = s.strip(); item[key] = None
MoveToCNote(item, key, s) == Put(Put(item, "cNote", Str(Strip(s))), key, Null)

\* a FORMULA's tooltip -> cNote if it looks like an output message
PromoteTooltip(item, tip) ==
    IF /\ IsStr(tip) /\ Strip(tip.v) # ""
       /\ \E w \in {"$$", "Score", "Total", "Severity"} : Contains(tip.v, w)
    THEN MoveToCNote(item, "tooltip", tip.v)
    ELSE item

\* a FORMULA's text -> cNote if it contains $$
PromoteDollarText(item, txt) ==
    IF IsStr(txt) /\ Contains(txt.v, "$$") THEN MoveToCNote(item, "text", txt.v) ELSE item

PromoteFormulaText(item) == PromoteDollarText(item, Get(item, "text"))

\* _promote_label_and_notes, step 2: a FORMULA's tooltip and text -> cNote
PromoteFormulaNotes(item, itype) ==
    IF itype # "FORMULA" THEN item
    ELSE PromoteFormulaText(PromoteTooltip(item, Get(item, "tooltip")))

\* _promote_label_and_notes
_promote_label_and_notes(item) ==
    PromoteFormulaNotes(PromoteLabelItem(PromoteText(item), TypeUpper(item)), TypeUpper(item))

\* "points" not in (c or {}), for a choice c on which the test does not raise
MissingPoints(c) ==
    CASE ~Truthy(c)  -> TRUE
      [] IsObj(c)    -> ~Has(c, "points")
      [] IsStr(c)    -> ~Contains(c.v, "points")
      [] IsList(c)   -> \A i \in 1..Len(c.v) : c.v[i] # Str("points")
      [] OTHER       -> FALSE

\* "points" not in c raises: c is a number or True
PointsTestRaises(c) == Truthy(c) /\ c.t \in {"int", "float", "bool"}

\* "points" in c and c["points"] not in (None, "")
HasPoints(c) == Has(c, "points") /\ ~NoneOrEmpty(Get(c, "points"))

\* the loop body of _ensure_points_on_numeric_choices raises on choice c
ChoiceFixRaises(c) ==
    /\ Truthy(c)
    /\ \/ ~IsObj(c)
       \/ /\ IsObj(c)
          /\ ~HasPoints(c)
          /\ Truthy(Get(c, "val")) /\ ~IsStr(Get(c, "val"))

\* if _is_number_literal(val): c["points"] = float(val)
SetPoints(c, val) == IF _is_number_literal(val) THEN Put(c, "points", FloatOf(val)) ELSE c

\* the loop body of _ensure_points_on_numeric_choices
ChoiceFix(c) ==
    IF ~Truthy(c) THEN c
    ELSE IF HasPoints(c) THEN c
    ELSE SetPoints(c, Strip(Or(Get(c, "val"), Str("")).v))

\* the first choice from i on at which any(...) stops: it lacks points, or the test
\* raises (0: none)
RECURSIVE PointsEventFrom(_, _)
PointsEventFrom(chs, i) ==
    IF i > Len(chs) THEN 0
    ELSE IF MissingPoints(chs[i]) \/ PointsTestRaises(chs[i]) THEN i
    ELSE PointsEventFrom(chs, i + 1)

FirstPointsEvent(chs) == PointsEventFrom(chs, 1)

\* the choices loop raises: any(...) stops at e, on a raise or on a missing points
ChoicesRaise(chs, e) ==
    /\ e # 0
    /\ \/ PointsTestRaises(chs[e])
       \/ \E i \in 1..Len(chs) : ChoiceFixRaises(chs[i])

\* item.get("type") in {"MENU","NUMERIC_SCALE"}
HasPointsType(item) == Get(item, "type") \in {Str("MENU"), Str("NUMERIC_SCALE")}

\* _ensure_points_on_numeric_choices raises
EnsurePointsRaises(item) ==
    \/ Unhashable(Get(item, "type"))
    \/ /\ HasPointsType(item)
       /\ \/ NotAList(Get(item, "choices"))
          \/ ChoicesRaise(Elems(Get(item, "choices")), FirstPointsEvent(Elems(Get(item, "choices"))))

\* the second loop of _ensure_points_on_numeric_choices
FixChoices(item, chs) ==
    IF FirstPointsEvent(chs) = 0 THEN item
    ELSE Put(item, "choices", List([i \in 1..Len(chs) |-> ChoiceFix(chs[i])]))

\* _ensure_points_on_numeric_choices
_ensure_points_on_numeric_choices(item) ==
    IF ~HasPointsType(item) THEN item ELSE FixChoices(item, Elems(Get(item, "choices")))

\* _repair_item raises
RepairItemRaises(item) == PromoteRaises(item) \/ EnsurePointsRaises(item)

\* "if isinstance(d.get(key), str): d[key] = _normalize_expr(d[key], known_refs)",
\* for each key of keys in turn
RECURSIVE NormalizeKeys(_, _, _)
NormalizeKeys(d, keys, known_refs) ==
    IF keys = <<>> THEN d
    ELSE NormalizeKeys(IF IsStr(Get(d, Head(keys)))
                       THEN Put(d, Head(keys), Str(_normalize_expr(Get(d, Head(keys)).v, known_refs)))
                       ELSE d,
                       Tail(keys), known_refs)

\* the conditions _repair_item and _repair_section normalize
ConditionKeys == <<"showIf", "makeNoteIf">>

\* _repair_item: the formula normalization
RepairFormula(item, known_refs, section_refs) ==
    IF IsStr(Get(item, "formula"))
    THEN Put(item, "formula",
             Str(_normalize_expr(_fix_sum(Get(item, "formula").v, known_refs, section_refs),
                                 known_refs)))
    ELSE item

\* _repair_item
_repair_item(item0, known_refs, section_refs) ==
    _ensure_points_on_numeric_choices(
        RepairFormula(NormalizeKeys(_promote_label_and_notes(Put(item0, "kind", Str("item"))),
                                    ConditionKeys, known_refs),
                      known_refs, section_refs))

RECURSIVE RepairSectionRaises(_), RepairChildRaises(_)
\* the loop body of _repair_section raises on child ch
RepairChildRaises(ch) ==
    /\ Truthy(ch)
    /\ \/ ~IsObj(ch)
       \/ /\ IsObj(ch)
          /\ IF ChildKind(ch) = Str("section")
             THEN RepairSectionRaises(ch)
             ELSE RepairItemRaises(ch)

\* _repair_section raises
RepairSectionRaises(sec) ==
    \/ ~IsObj(sec)
    \/ /\ IsObj(sec)
       /\ \/ UnifyRaises(sec)
          \/ NotAList(Get(sec, "items"))
          \/ \E i \in 1..Len(Elems(Get(sec, "items"))) :
               RepairChildRaises(Elems(Get(sec, "items"))[i])

\* _repair_section: the section-level conditions
RepairSectionAttrs(sec, known_refs) ==
    Put(sec, "attributes",
        NormalizeKeys(Or(Get(sec, "attributes"), EmptyObj), ConditionKeys, known_refs))

\* _repair_section: prefer header over the legacy label; lbl is sec.get("label")
PreferHeader(sec, lbl) ==
    IF ~Truthy(Get(sec, "header")) /\ IsStr(lbl) /\ Strip(lbl.v) # ""
    THEN Put(sec, "header", Str(Strip(lbl.v)))
    ELSE sec

SectionHeader(sec) == PreferHeader(sec, Get(sec, "label"))

RECURSIVE _repair_section(_, _, _, _), RepairChild(_, _, _), RepairChildren(_, _, _, _)
\* the loop body of _repair_section
RepairChild(ch, known_refs, section_refs) ==
    IF ~Truthy(ch) THEN ch
    ELSE IF ChildKind(ch) = Str("section")
         THEN _repair_section(Put(ch, "kind", ChildKind(ch)), FALSE, known_refs, section_refs)
         ELSE _repair_item(ch, known_refs, section_refs)

\* the loop of _repair_section over items
RepairChildren(sec, items, known_refs, section_refs) ==
    IF IsList(items) /\ Truthy(items)
    THEN Put(sec, "items",
             List([i \in 1..Len(items.v) |-> RepairChild(items.v[i], known_refs, section_refs)]))
    ELSE sec

\* the part of _repair_section after _unify_section_attrs
RepairUnified(sec, known_refs, section_refs) ==
    RepairChildren(SectionHeader(RepairSectionAttrs(sec, known_refs)), Get(sec, "items"),
                   known_refs, section_refs)

\* _repair_section
_repair_section(sec0, is_first, known_refs, section_refs) ==
    RepairUnified(_unify_section_attrs(Put(sec0, "kind", Str("section")), is_first),
                  known_refs, section_refs)

\* the two loops of auto_repair_cir raise
SectionsRepairRaise(sections) ==
    \/ \E i \in 1..Len(sections) : CollectRaises(sections[i])
    \/ \E i \in 1..Len(sections) : RepairSectionRaises(CollectKinds(sections[i]))

\* auto_repair_cir raises
AutoRepairRaises(c) ==
    NotAList(Get(c, "sections")) \/ SectionsRepairRaise(Elems(Get(c, "sections")))

\* the sections auto_repair_cir leaves: collected, then repaired
RepairSections(sections) ==
    [i \in 1..Len(sections) |->
        _repair_section(CollectKinds(sections[i]), i = 1,
                        UNION {ItemRefs(sections[k]) : k \in 1..Len(sections)},
                        UNION {SectionRefs(sections[k]) : k \in 1..Len(sections)})]

\* c.setdefault("meta", {})
DefaultMeta(c) == IF Has(c, "meta") THEN c ELSE Put(c, "meta", EmptyObj)

\* auto_repair_cir, for an input dict on which it does not raise
auto_repair_cir(c0) ==
    Put(DefaultMeta(c0), "sections", List(RepairSections(Elems(Get(c0, "sections")))))

(***************************************************************************)
(* enums.py and config.py                                                  *)
(***************************************************************************)
ITEM_TYPES ==
    {"SECTION", "PROPOSITION", "NO_YES_NOT_SURE", "CHECKBOX", "TEXT_FIELD", "TEXT_FIELD_NUMERIC",
     "TEXT_AREA", "MENU", "MENU_MULTI_SELECT", "LABEL", "PICTURE", "FORMULA", "TIME",
     "APPROXIMATE_DATE", "APPROXIMATE_DURATION", "DATE", "NUMERIC_SCALE", "DIAGRAM", "FINDING",
     "PE_TEST", "PE_CHECK", "ASSESSMENT", "IX", "TX", "RX", "BILL", "VIDEO", "FILE_UPLOAD"}

FIELD_VALIDATOR_TYPES == {"MANDATORY", "REG_EXP", "EMAIL", "PHONE", "POSTAL_CODE", "SCRIPT"}

HINTS ==
    {"USE_BUTTONS_FOR_MENU", "USE_SEARCHABLE_MENU", "USE_DROPDOWN_MENU", "MIN_ACUITY_WEEKS",
     "MIN_ACUITY_YEARS", "SAME_LINE", "VERTICAL_STACKING", "GREY_BG", "WHITE_BG", "BORDER",
     "EXPANDED", "JS_MENU_OPTION", "INDIVIDUAL_MENU_OPTION"}

FLAG_COLORS == {"NONE", "RED_UNDERLINE", "RED", "ORANGE", "YELLOW", "GREEN", "BLUE", "PURPLE"}

NOTE_STYLES == {"PLAIN", "BOLD", "UNDERLINE", "BOLD_UNDERLINE", "ITALIC", "CUSTOM"}

DATA_SECURITY_MODES == {"encrypted", "anonymous", "hybrid"}

NOTE_TYPES == {"progress", "letter", "report"}

DEFAULT_NOTE_VERSION == 2

(***************************************************************************)
(* validators.py: normalize_enums_and_defaults.  A dict that is being      *)
(* edited travels with the issues reported so far, as [d, issues].         *)
(***************************************************************************)
\* REF_RE = ^[A-Za-z0-9_]+$ under re.match: "$" also matches before a final line break;
\* e is where the leading run of word characters ends
RefMatchTo(s, e) == e >= 1 /\ (e = Len(s) \/ (e = Len(s) - 1 /\ Char(s, Len(s)) = "\n"))

RefMatch(s) == RefMatchTo(s, RunEnd(s, 1, WordChars))

REF_RE_match(s) == RefMatch(s)

\* re.sub(r"[^A-Za-z0-9_]+", "_", s)
RECURSIVE SlugSub(_, _)
SlugSub(s, i) ==
    IF i > Len(s) THEN ""
    ELSE IF Char(s, i) \in WordChars THEN Char(s, i) \o SlugSub(s, i + 1)
    ELSE "_" \o SlugSub(s, RunEnd(s, i, CharsOf(s) \ WordChars) + 1)

\* the length the generated base of an identifier is cut to
SlugMax == 24

\* decimal text of a natural number
RECURSIVE NatStr(_)
NatStr(n) == IF n < 10 THEN Char("0123456789", n + 1) ELSE NatStr(n \div 10) \o Char("0123456789", (n % 10) + 1)

\* s or default
OrDefault(s, default) == IF s = "" THEN default ELSE s

\* _enum_fix: the value it returns
_enum_fix(v, allowed) ==
    IF v \in allowed THEN v
    ELSE IF Upper(v) \in allowed THEN Upper(v)
    ELSE IF Lower(v) \in allowed THEN Lower(v)
    ELSE v

\* _enum_fix: whether it reports a fix
EnumFixed(v, allowed) == v \notin allowed /\ (Upper(v) \in allowed \/ Lower(v) \in allowed)

\* one enum fix: the key, the allowed values, the text before the value in the issue,
\* and whether the issue also shows the old value
EnumFix(key, allowed, msg, oldToo) ==
    [key |-> key, allowed |-> allowed, msg |-> msg, oldToo |-> oldToo]

\* "v, fixed = _enum_fix(old, allowed); if fixed: issues.append(...); d[key] = v"
FixEnumValue(st, f, old, v) ==
    [d |-> Put(st.d, f.key, Str(v)),
     issues |-> IF EnumFixed(old, f.allowed)
                THEN Append(st.issues, f.msg \o (IF f.oldToo THEN " " \o old ELSE "") \o "→" \o v)
                ELSE st.issues]

\* "if d.get(key): ..." for one enum fix
FixEnumKey(st, f) ==
    IF Truthy(Get(st.d, f.key))
    THEN FixEnumValue(st, f, Get(st.d, f.key).v, _enum_fix(Get(st.d, f.key).v, f.allowed))
    ELSE st

\* the enum fixes of a dict, in order
RECURSIVE FixEnums(_, _)
FixEnums(st, fixes) ==
    IF fixes = <<>> THEN st ELSE FixEnums(FixEnumKey(st, Head(fixes)), Tail(fixes))

\* the enum fixes of the dict under key, when there is one to fix
PutSub(st, key, sub) == [d |-> Put(st.d, key, sub.d), issues |-> sub.issues]

FixSub(st, key, fixes) ==
    IF IsObj(Get(st.d, key)) /\ Truthy(Get(st.d, key))
    THEN PutSub(st, key, FixEnums([d |-> Get(st.d, key), issues |-> st.issues], fixes))
    ELSE st

\* the enum fix of d[key] raises: the value is truthy and no string
EnumKeyRaises(d, key) == Truthy(Get(d, key)) /\ ~IsStr(Get(d, key))

MetaFixes ==
    <<EnumFix("dataSecurityMode", DATA_SECURITY_MODES, "meta.dataSecurityMode", FALSE),
      EnumFix("noteType", NOTE_TYPES, "meta.noteType", FALSE)>>

SectionFixes ==
    <<EnumFix("headerStyle", NOTE_STYLES, "section.headerStyle", FALSE),
      EnumFix("flag", FLAG_COLORS, "section.flag", FALSE)>>

ItemFixes ==
    <<EnumFix("type", ITEM_TYPES, "item.type", TRUE),
      EnumFix("flag", FLAG_COLORS, "item.flag", FALSE),
      EnumFix("negFlag", FLAG_COLORS, "item.negFlag", FALSE)>>

ValidatorFixes == <<EnumFix("type", FIELD_VALIDATOR_TYPES, "validator.type", FALSE)>>

\* the noteVersion default (isinstance(True, int) holds in Python)
DefaultNoteVersion(meta) ==
    IF ~Has(meta, "noteVersion") \/ Get(meta, "noteVersion").t \notin {"int", "bool"}
    THEN [d |-> Put(meta, "noteVersion", Num(DEFAULT_NOTE_VERSION)),
          issues |-> <<"meta.noteVersion defaulted to 2">>]
    ELSE [d |-> meta, issues |-> <<>>]

\* normalize_enums_and_defaults, the meta part
NormalizeMeta(meta) == FixEnums(DefaultNoteVersion(meta), MetaFixes)

\* the attribute bag walk() reads: node.get("attributes", {}) or {}
WalkAttrs(node) == Or(Get(node, "attributes"), EmptyObj)

\* reading headerStyle and flag off the bag raises: the bag is a number or True, or a
\* string or list in which the key is found and then indexed
WalkAttrsRaise(attrs) ==
    CASE attrs.t \in {"int", "float", "bool"} -> TRUE
      [] IsStr(attrs)  -> Contains(attrs.v, "headerStyle") \/ Contains(attrs.v, "flag")
      [] IsList(attrs) -> \E i \in 1..Len(attrs.v) : attrs.v[i] \in {Str("headerStyle"), Str("flag")}
      [] OTHER -> EnumKeyRaises(attrs, "headerStyle") \/ EnumKeyRaises(attrs, "flag")

\* walk(): the base of a generated identifier
RefBase(node) ==
    OrDefault(Sub(SlugSub(Strip(Or(Get(node, "text"), Str("item")).v), 1), 1, SlugMax), "item")

\* walk(): "idx = 1; while f'{base}_{idx}' in seen_refs: idx += 1"
RECURSIVE FreeIndex(_, _, _)
FreeIndex(base, idx, seen_refs) ==
    IF (base \o "_" \o NatStr(idx)) \in seen_refs THEN FreeIndex(base, idx + 1, seen_refs) ELSE idx

IndexedRef(base, seen_refs) == base \o "_" \o NatStr(FreeIndex(base, 1, seen_refs))

\* walk(): the identifier given to an item that has none
GeneratedRef(node, seen_refs) == IndexedRef(RefBase(node), seen_refs)

\* walk(): re.sub(r"[^A-Za-z0-9_]+", "_", ref) or "ITEM"
SanitizedRef(ref) == OrDefault(SlugSub(ref, 1), "ITEM")

\* walk() on an item raises
WalkItemRaises(node) ==
    \/ Has(node, "type") /\ EnumKeyRaises(node, "type")
    \/ EnumKeyRaises(node, "flag")
    \/ EnumKeyRaises(node, "negFlag")
    \/ Truthy(Get(node, "validator")) /\ ~IsObj(Get(node, "validator"))
    \/ IsObj(Get(node, "validator")) /\ EnumKeyRaises(Get(node, "validator"), "type")
    \/ ~Truthy(Get(node, "ref")) /\ Truthy(Get(node, "text")) /\ ~IsStr(Get(node, "text"))
    \/ Truthy(Get(node, "ref")) /\ ~IsStr(Get(node, "ref"))

\* node["ref"] = ref, with the issue that reports it
SetRef(st, ref, issue) == [d |-> Put(st.d, "ref", Str(ref)), issues |-> Append(st.issues, issue)]

SetGenerated(st, ref) == SetRef(st, ref, "item.ref generated: " \o ref)

\* walk(): "if not node.get('ref'): ..."
GenerateRef(st, seen_refs) ==
    IF ~Truthy(Get(st.d, "ref")) THEN SetGenerated(st, GeneratedRef(st.d, seen_refs)) ELSE st

SetSanitized(st, old, fixed) == SetRef(st, fixed, "item.ref '" \o old \o "'→'" \o fixed \o "'")

\* walk(): "if not REF_RE.match(node['ref']): ..."
SanitizeRef(st) ==
    IF ~REF_RE_match(Get(st.d, "ref").v)
    THEN SetSanitized(st, Get(st.d, "ref").v, SanitizedRef(Get(st.d, "ref").v))
    ELSE st

\* walk(): seen_refs.add(node["ref"]), as [node, issues, seen]
AddSeen(st, seen_refs) ==
    [node |-> st.d, issues |-> st.issues, seen |-> seen_refs \cup {Get(st.d, "ref").v}]

\* walk() on an item, as [node, issues, seen]
WalkItem(node, sofar, seen_refs) ==
    AddSeen(SanitizeRef(GenerateRef(FixSub(FixEnums([d |-> node, issues |-> sofar], ItemFixes),
                                           "validator", ValidatorFixes),
                                    seen_refs)),
            seen_refs)

RECURSIVE WalkRaises(_)
\* walk() raises on this node
WalkRaises(node) ==
    \/ ~IsObj(node)
    \/ /\ IsObj(node)
       /\ Get(node, "kind") = Str("section")
       /\ \/ WalkAttrsRaise(WalkAttrs(node))
          \/ NotAList(Get(node, "items"))
          \/ \E i \in 1..Len(Elems(Get(node, "items"))) : WalkRaises(Elems(Get(node, "items"))[i])
    \/ /\ IsObj(node)
       /\ Get(node, "kind") = Str("item")
       /\ WalkItemRaises(node)

\* the walked children w put back under key (the list is the node's own when truthy)
PutWalked(node, key, w) ==
    [node |-> IF Truthy(Get(node, key)) THEN Put(node, key, List(w.nodes)) ELSE node,
     issues |-> w.issues,
     seen |-> w.seen]

\* one walked node in front of the walked rest
WalkedCons(one, rest) ==
    [nodes |-> <<one.node>> \o rest.nodes, issues |-> rest.issues, seen |-> rest.seen]

RECURSIVE Walk(_, _, _), WalkAll(_, _, _, _), WalkRest(_, _, _), WalkKids(_, _)
\* walk() over the children of a section whose bag has been fixed
WalkKids(st, seen_refs) ==
    PutWalked(st.d, "items", WalkAll(Elems(Get(st.d, "items")), 1, st.issues, seen_refs))

\* walk(node, seen_refs), as [node, issues, seen]; issues holds the ones reported so far
Walk(node, sofar, seen_refs) ==
    IF Get(node, "kind") = Str("section")
    THEN WalkKids(FixSub([d |-> node, issues |-> sofar], "attributes", SectionFixes), seen_refs)
    ELSE IF Get(node, "kind") = Str("item") THEN WalkItem(node, sofar, seen_refs)
    ELSE [node |-> node, issues |-> sofar, seen |-> seen_refs]

WalkRest(nodes, i, one) == WalkedCons(one, WalkAll(nodes, i + 1, one.issues, one.seen))

\* walk() over nodes[i..], in order, as [nodes, issues, seen]
WalkAll(nodes, i, sofar, seen_refs) ==
    IF i > Len(nodes) THEN [nodes |-> <<>>, issues |-> sofar, seen |-> seen_refs]
    ELSE WalkRest(nodes, i, Walk(nodes[i], sofar, seen_refs))

\* "for s in cir.get('sections', []): walk(s)" raises before any walk: the value is None
\* or a number, or a string or dict that yields what has no .get
SectionsUnreadable(c) ==
    /\ Has(c, "sections")
    /\ \/ IsNull(Get(c, "sections"))
       \/ Get(c, "sections").t \in {"int", "float", "bool"}
       \/ NotAList(Get(c, "sections"))

\* cir.get("sections", []) cannot be iterated, or holds what walk() raises on
SectionsRaise(c) ==
    SectionsUnreadable(c) \/ \E i \in 1..Len(Elems(Get(c, "sections"))) : WalkRaises(Elems(Get(c, "sections"))[i])

\* normalize_enums_and_defaults raises
NormalizeRaises(c) ==
    \/ Has(c, "meta") /\ ~IsObj(Get(c, "meta"))
    \/ IsObj(Get(c, "meta")) /\ (EnumKeyRaises(Get(c, "meta"), "dataSecurityMode") \/ EnumKeyRaises(Get(c, "meta"), "noteType"))
    \/ SectionsRaise(c)

\* the normalized meta m put back; a meta that is missing is defaulted on a dict of
\* its own, which the tree never gets
PutMeta(c, m) == [d |-> IF Has(c, "meta") THEN Put(c, "meta", m.d) ELSE c, issues |-> m.issues]

NormalizedMeta(c) == PutMeta(c, NormalizeMeta(IF Has(c, "meta") THEN Get(c, "meta") ELSE EmptyObj))

\* the walk over the sections, after the meta part
NormalizeSections(st) ==
    PutWalked(st.d, "sections", WalkAll(Elems(Get(st.d, "sections")), 1, st.issues, {}))

\* the result of a pass over the tree, as [cir, issues]
Passed(w) == [cir |-> w.node, issues |-> w.issues]

\* normalize_enums_and_defaults, as [cir, issues]
normalize_enums_and_defaults(c) == Passed(NormalizeSections(NormalizedMeta(c)))

(***************************************************************************)
(* validators.py: _add_validator and _apply_heuristics                     *)
(***************************************************************************)
\* the characters in code point order, for sorted() on strings (ASCII without the
\* backquote, which no identifier or hint of the model holds)
CodePoints ==
    "\t\n !\"#$%&'()*+,-./0123456789:;<=>?@ABCDEFGHIJKLMNOPQRSTUVWXYZ[\\]^_abcdefghijklmnopqrstuvwxyz{|}~"

\* the rank of a character; what is not listed ranks after the listed ones
Ord(c) ==
    IF \E i \in 1..Len(CodePoints) : Char(CodePoints, i) = c
    THEN CHOOSE i \in 1..Len(CodePoints) : Char(CodePoints, i) = c
    ELSE Len(CodePoints) + 1

RECURSIVE StrLess(_, _)
\* a < b on Python strings
StrLess(a, b) ==
    IF b = "" THEN FALSE
    ELSE IF a = "" THEN TRUE
    ELSE IF Char(a, 1) = Char(b, 1) THEN StrLess(From(a, 2), From(b, 2))
    ELSE Ord(Char(a, 1)) < Ord(Char(b, 1))

\* min(S) for a non-empty set of strings
Least(S) == CHOOSE x \in S : \A y \in S \ {x} : StrLess(x, y)

RECURSIVE Sorted(_), SortedFrom(_, _)
SortedFrom(S, m) == <<m>> \o Sorted(S \ {m})

\* sorted(list(S)) for a set of strings
Sorted(S) == IF S = {} THEN <<>> ELSE SortedFrom(S, Least(S))

\* a list of strings as a JSON list
StrList(strs) == List([i \in 1..Len(strs) |-> Str(strs[i])])

\* node.get('ref') or '(no-ref)'
RefOrNoRef(node) == Or(Get(node, "ref"), Str("(no-ref)")).v

\* a faulty heuristic, which replaces the validator an Item has
OverrideValidator(st, vtype) ==
    [d |-> Put(st.d, "validator", Obj([type |-> Str(vtype)])), issues |-> st.issues]

\* _add_validator, on [d, issues]
_add_validator(st, vtype) ==
    IF ~Has(st.d, "validator") \/ ~Truthy(Get(st.d, "validator"))
    THEN [d |-> Put(st.d, "validator", Obj([type |-> Str(vtype)])),
          issues |-> Append(st.issues,
                            "repair: added validator " \o vtype \o " to " \o RefOrNoRef(st.d))]
    ELSE IF ~Truthy(Get(Get(st.d, "validator"), "type"))
    THEN [d |-> Put(st.d, "validator", Put(Get(st.d, "validator"), "type", Str(vtype))),
          issues |-> Append(st.issues,
                            "repair: set validator.type=" \o vtype \o " for " \o RefOrNoRef(st.d))]
    ELSE st

\* the wordings the heuristics look for, and the validator each one adds
Keywords ==
    <<[keys |-> {"email", "e-mail"}, vtype |-> "EMAIL"],
      [keys |-> {"phone", "telephone", "cell"}, vtype |-> "PHONE"],
      [keys |-> {"postal", "zip"}, vtype |-> "POSTAL_CODE"]>>

\* "if any(k in text for k in keys): _add_validator(n, vtype, issues)"
KeywordValidator(st, text, kw) ==
    IF \E k \in kw.keys : Contains(text, k) THEN _add_validator(st, kw.vtype) ELSE st

RECURSIVE KeywordValidators(_, _, _)
KeywordValidators(st, text, kws) ==
    IF kws = <<>> THEN st
    ELSE KeywordValidators(KeywordValidator(st, text, Head(kws)), text, Tail(kws))

\* len(ch) of the choices
ChoicesLen(ch) ==
    CASE IsList(ch) -> Len(ch.v)
      [] IsStr(ch)  -> Len(ch.v)
      [] IsObj(ch)  -> Cardinality(DOMAIN ch.v)
      [] OTHER      -> 0

\* set(n.get("hints") or []), as a set of values
HintSet(h) ==
    CASE IsList(h) -> {h.v[i] : i \in 1..Len(h.v)}
      [] IsStr(h)  -> {Str(Char(h.v, i)) : i \in 1..Len(h.v)}
      [] IsObj(h)  -> {Str(k) : k \in DOMAIN h.v}
      [] OTHER     -> {}

\* the hint the menu heuristic adds for L choices, or "" for none
MenuHint(L, hints) ==
    IF L >= 7 /\ Str("USE_SEARCHABLE_MENU") \notin hints THEN "USE_SEARCHABLE_MENU"
    ELSE IF L >= 7 THEN ""
    ELSE IF 3 <= L /\ L <= 6 /\ Str("USE_DROPDOWN_MENU") \notin hints THEN "USE_DROPDOWN_MENU"
    ELSE ""

\* the item type the heuristics read: (n.get("type") or "").upper()
HeurType(n) == Upper(Or(Get(n, "type"), Str("")).v)

\* the menu heuristic applies to the item
IsSizedMenu(n) == HeurType(n) \in {"MENU", "MENU_MULTI_SELECT"} /\ Truthy(Get(n, "choices"))

\* the menu heuristic raises for choices ch and hints h
MenuHintRaises(ch, h) ==
    \/ ch.t \in {"int", "float", "bool"}
    \/ Truthy(h) /\ h.t \in {"int", "float", "bool"}
    \/ IsList(h) /\ \E i \in 1..Len(h.v) : Unhashable(h.v[i])
    \/ /\ MenuHint(ChoicesLen(ch), HintSet(h)) # ""
       /\ \E x \in HintSet(h) : ~IsStr(x)

\* the heuristics raise on an item: a prompt text that is no string, choices without a
\* length, hints that cannot be made a set, or cannot be sorted once a hint is added
HeurItemRaises(n) ==
    \/ Truthy(Get(n, "text")) /\ ~IsStr(Get(n, "text"))
    \/ IsSizedMenu(n) /\ MenuHintRaises(Get(n, "choices"), Get(n, "hints"))

\* hints.add(add); n["hints"] = sorted(list(hints)); issues.append(...)
AddHint(st, add, hints) ==
    IF add = "" THEN st
    ELSE [d |-> Put(st.d, "hints", StrList(Sorted({x.v : x \in hints} \cup {add}))),
          issues |-> Append(st.issues, "repair: added " \o add \o " to " \o Get(st.d, "ref").v)]

\* the menu hints part of walk()
MenuHints(st) ==
    IF IsSizedMenu(st.d)
    THEN AddHint(st, MenuHint(ChoicesLen(Get(st.d, "choices")), HintSet(Get(st.d, "hints"))),
                 HintSet(Get(st.d, "hints")))
    ELSE st

\* walk() of _apply_heuristics on an item, on [d, issues]
HeurItem(n, sofar) ==
    MenuHints(KeywordValidators([d |-> n, issues |-> sofar],
                                Lower(Or(Get(n, "text"), Str("")).v), Keywords))

RECURSIVE HeurRaises(_)
\* walk() of _apply_heuristics raises on this node
HeurRaises(n) ==
    \/ ~IsObj(n)
    \/ /\ IsObj(n)
       /\ Get(n, "kind") = Str("section")
       /\ \/ NotAList(Get(n, "items"))
          \/ \E i \in 1..Len(Elems(Get(n, "items"))) : HeurRaises(Elems(Get(n, "items"))[i])
    \/ IsObj(n) /\ Get(n, "kind") = Str("item") /\ HeurItemRaises(n)

\* the children w put back under key
PutHeur(node, key, w) ==
    [d |-> IF Truthy(Get(node, key)) THEN Put(node, key, List(w.nodes)) ELSE node,
     issues |-> w.issues]

HeurCons(one, rest) == [nodes |-> <<one.d>> \o rest.nodes, issues |-> rest.issues]

RECURSIVE HeurWalk(_, _), HeurAll(_, _, _), HeurRest(_, _, _)
\* walk() of _apply_heuristics, as [d, issues]
HeurWalk(n, sofar) ==
    IF Get(n, "kind") = Str("section")
    THEN PutHeur(n, "items", HeurAll(Elems(Get(n, "items")), 1, sofar))
    ELSE IF Get(n, "kind") = Str("item") THEN HeurItem(n, sofar)
    ELSE [d |-> n, issues |-> sofar]

HeurRest(nodes, i, one) == HeurCons(one, HeurAll(nodes, i + 1, one.issues))

\* walk() over nodes[i..], in order, as [nodes, issues]
HeurAll(nodes, i, sofar) ==
    IF i > Len(nodes) THEN [nodes |-> <<>>, issues |-> sofar]
    ELSE HeurRest(nodes, i, HeurWalk(nodes[i], sofar))

\* _apply_heuristics raises
ApplyHeuristicsRaises(c) ==
    SectionsUnreadable(c) \/ \E i \in 1..Len(Elems(Get(c, "sections"))) : HeurRaises(Elems(Get(c, "sections"))[i])

\* _apply_heuristics, as [d, issues]: the tree and the issues, old and new
_apply_heuristics(c, sofar) ==
    PutHeur(c, "sections", HeurAll(Elems(Get(c, "sections")), 1, sofar))

(***************************************************************************)
(* cir_schema.py: CIR_JSON_SCHEMA, and validators.py: validate_against_schema. *)
(* The schema is data; Draft202012Validator is modelled by the keywords the *)
(* schema uses, each error as "location: message" with the messages of the *)
(* jsonschema library.                                                     *)
(***************************************************************************)
\* {"type": "string"}
StringS == [k |-> "string", kw |-> "none"]

\* {"type": "string", "enum": sorted(list(allowed))}
EnumS(allowed) == [k |-> "string", kw |-> "enum", enum |-> allowed]

\* {"type": "string", "const": c}
ConstS(c) == [k |-> "string", kw |-> "const", const |-> c]

\* {"type": "string", "pattern": "^[A-Za-z0-9_]+$"}
PatternS == [k |-> "string", kw |-> "pattern"]

\* {"type": "string", "minLength": n}
MinLengthS(n) == [k |-> "string", kw |-> "minLength", minLength |-> n]

\* {"type": "boolean"}
BooleanS == [k |-> "boolean"]

\* {"type": "integer"}
IntegerS == [k |-> "integer"]

\* {"type": "array", "items": items}
ArrayS(items) == [k |-> "array", items |-> items]

\* {"$ref": "#/$defs/<name>"}
RefS(name) == [k |-> "ref", ref |-> name]

\* {"anyOf": [{"$ref": ...}, ...]}
AnyOfS(names) == [k |-> "anyOf", anyOf |-> names]

\* {"type": "object", "additionalProperties": False, ...}: the keywords in the order the
\* dict holds them, the required names, and the properties as <<name, schema>> pairs
ObjectS(order, required, properties) ==
    [k |-> "object", order |-> order, required |-> required, properties |-> properties]

HintsS == ArrayS(EnumS(HINTS))

MetaS ==
    ObjectS(<<"additionalProperties", "required", "properties">>,
            <<"ref", "title", "noteVersion", "noteType", "dataSecurityMode">>,
            << <<"ref", PatternS>>, <<"title", MinLengthS(1)>>, <<"shortForm", StringS>>,
               <<"noteVersion", IntegerS>>, <<"noteType", EnumS(NOTE_TYPES)>>,
               <<"dataSecurityMode", EnumS(DATA_SECURITY_MODES)>> >>)

SectionAttributesS ==
    ObjectS(<<"additionalProperties", "properties">>, <<>>,
            << <<"subcategory", StringS>>, <<"headerStyle", EnumS(NOTE_STYLES)>>,
               <<"groupItems", BooleanS>>, <<"quoteAnswers", BooleanS>>, <<"expandIf", StringS>>,
               <<"showIf", StringS>>, <<"makeNoteIf", StringS>>, <<"flag", EnumS(FLAG_COLORS)>>,
               <<"noteIndex", StringS>>, <<"ownLine", BooleanS>> >>)

SectionS ==
    ObjectS(<<"additionalProperties", "required", "properties">>, <<"kind", "items">>,
            << <<"kind", ConstS("section")>>, <<"ref", StringS>>, <<"header", StringS>>,
               <<"attributes", SectionAttributesS>>, <<"hints", HintsS>>,
               <<"items", ArrayS(AnyOfS(<<"section", "item">>))>> >>)

ChoiceS ==
    ObjectS(<<"additionalProperties", "required", "properties">>, <<"val">>,
            << <<"val", StringS>>, <<"display", StringS>>, <<"points", StringS>>,
               <<"flag", EnumS(FLAG_COLORS)>>, <<"note", StringS>> >>)

ValidatorS ==
    ObjectS(<<"additionalProperties", "properties">>, <<>>,
            << <<"type", EnumS(FIELD_VALIDATOR_TYPES)>>, <<"format", StringS>>,
               <<"message", StringS>>, <<"allowEmpty", BooleanS>>, <<"validIf", StringS>> >>)

ItemS ==
    ObjectS(<<"additionalProperties", "required", "properties">>, <<"kind", "type">>,
            << <<"kind", ConstS("item")>>, <<"ref", StringS>>, <<"type", EnumS(ITEM_TYPES)>>,
               <<"text", StringS>>, <<"formula", StringS>>, <<"showIf", StringS>>,
               <<"makeNoteIf", StringS>>, <<"noteIndex", StringS>>, <<"ownLine", BooleanS>>,
               <<"quoteAnswer", BooleanS>>, <<"x", StringS>>, <<"y", StringS>>,
               <<"subcategory", StringS>>, <<"tooltip", StringS>>, <<"studyColumnHeader", StringS>>,
               <<"markableDiagramFileName", StringS>>, <<"dxCode", StringS>>,
               <<"flag", EnumS(FLAG_COLORS)>>, <<"negFlag", EnumS(FLAG_COLORS)>>,
               <<"emrField", StringS>>, <<"choices", ArrayS(RefS("choice"))>>,
               <<"validator", ValidatorS>>, <<"hints", HintsS>> >>)

\* CIR_JSON_SCHEMA["$defs"][name]
Defs(name) ==
    CASE name = "section" -> SectionS
      [] name = "choice"  -> ChoiceS
      [] name = "item"    -> ItemS

CIR_JSON_SCHEMA ==
    ObjectS(<<"additionalProperties", "properties", "required">>, <<"meta", "sections">>,
            << <<"meta", MetaS>>, <<"desc", StringS>>, <<"tagLine", StringS>>,
               <<"keywords", StringS>>, <<"sections", ArrayS(RefS("section"))>> >>)

RECURSIVE Flatten(_)
\* the concatenation of a sequence of sequences
Flatten(ss) == IF ss = <<>> THEN <<>> ELSE Head(ss) \o Flatten(Tail(ss))

\* str(n) for an integer
IntStr(n) == IF n < 0 THEN "-" \o NatStr(-n) ELSE NatStr(n)

RECURSIVE ReprChars(_)
\* the body of repr(s): line break and tab escaped
ReprChars(s) ==
    IF s = "" THEN ""
    ELSE (CASE Char(s, 1) = "\n" -> "\\n" [] Char(s, 1) = "\t" -> "\\t"
            [] Char(s, 1) = "\\" -> "\\\\" [] OTHER -> Char(s, 1))
         \o ReprChars(From(s, 2))

RECURSIVE EscapeQuote(_)
\* the apostrophes of an escaped body, escaped
EscapeQuote(s) ==
    IF s = "" THEN ""
    ELSE (IF Char(s, 1) = "'" THEN "\\'" ELSE Char(s, 1)) \o EscapeQuote(From(s, 2))

\* repr(s) of a string: double quotes when it holds an apostrophe and no double quote
ReprStr(s) ==
    IF Contains(s, "'") /\ ~Contains(s, "\"") THEN "\"" \o ReprChars(s) \o "\""
    ELSE "'" \o EscapeQuote(ReprChars(s)) \o "'"

RECURSIVE Repr(_)
\* repr(x), the keys of a dict in sorted order
Repr(x) ==
    CASE x.t = "null"  -> "None"
      [] x.t = "bool"  -> IF x.v THEN "True" ELSE "False"
      [] x.t = "int"   -> IntStr(x.v)
      [] x.t = "float" -> IF x.v.lit = "" THEN IntStr(x.v.whole) \o ".0" ELSE x.v.lit
      [] x.t = "str"   -> ReprStr(x.v)
      [] x.t = "list"  -> "[" \o Join([i \in 1..Len(x.v) |-> Repr(x.v[i])], ", ") \o "]"
      [] x.t = "obj"   -> LET ks == Sorted(DOMAIN x.v)
                          IN  "{" \o Join([i \in 1..Len(ks) |-> ReprStr(ks[i]) \o ": " \o Repr(x.v[ks[i]])], ", ") \o "}"

\* repr of a list of strings
ReprStrs(ss) == "[" \o Join([i \in 1..Len(ss) |-> ReprStr(ss[i])], ", ") \o "]"

\* the instance is of the JSON Schema type
IsType(x, type) ==
    CASE type = "string"  -> x.t = "str"
      [] type = "boolean" -> x.t = "bool"
      [] type = "integer" -> x.t = "int" \/ (x.t = "float" /\ x.v.lit = "")
      [] type = "array"   -> x.t = "list"
      [] type = "object"  -> x.t = "obj"

\* " → ".join(map(str, err.path)) extended by one step
PathAdd(path, seg) == IF path = "" THEN seg ELSE path \o " → " \o seg

\* f"{loc or 'root'}: {err.message}"
Err(path, message) == (IF path = "" THEN "root" ELSE path) \o ": " \o message

\* the "type" keyword
TypeErrors(S, x, path) ==
    IF IsType(x, S.k) THEN <<>> ELSE <<Err(path, Repr(x) \o " is not of type '" \o S.k \o "'")>>

\* the keyword a string schema carries besides "type"
StringKeywordErrors(S, x, path) ==
    CASE S.kw = "enum" ->
           IF IsStr(x) /\ x.v \in S.enum THEN <<>>
           ELSE <<Err(path, Repr(x) \o " is not one of " \o ReprStrs(Sorted(S.enum)))>>
      [] S.kw = "const" ->
           IF x = Str(S.const) THEN <<>> ELSE <<Err(path, ReprStr(S.const) \o " was expected")>>
      [] S.kw = "pattern" ->
           IF IsStr(x) /\ ~RefMatch(x.v)
           THEN <<Err(path, Repr(x) \o " does not match '^[A-Za-z0-9_]+$'")>> ELSE <<>>
      [] S.kw = "minLength" ->
           IF IsStr(x) /\ Len(x.v) < S.minLength THEN <<Err(path, Repr(x) \o " is too short")>> ELSE <<>>
      [] OTHER -> <<>>

\* the property names of an object schema
PropertyNames(S) == {S.properties[i][1] : i \in 1..Len(S.properties)}

\* the "additionalProperties": False keyword
ExtrasErrors(extras, path) ==
    IF extras = <<>> THEN <<>>
    ELSE <<Err(path, "Additional properties are not allowed ("
                     \o Join([i \in 1..Len(extras) |-> ReprStr(extras[i])], ", ")
                     \o (IF Len(extras) = 1 THEN " was" ELSE " were") \o " unexpected)")>>

AdditionalErrors(S, x, path) == ExtrasErrors(Sorted(DOMAIN x.v \ PropertyNames(S)), path)

\* the "required" keyword
RequiredErrors(S, x, path) ==
    Flatten([i \in 1..Len(S.required) |->
               IF Has(x, S.required[i]) THEN <<>>
               ELSE <<Err(path, ReprStr(S.required[i]) \o " is a required property")>>])

RECURSIVE Validate(_, _, _)
\* the errors Draft202012Validator(S).iter_errors(x) yields, located under path
Validate(S, x, path) ==
    CASE S.k = "ref" -> Validate(Defs(S.ref), x, path)
      [] S.k = "anyOf" ->
           IF \E i \in 1..Len(S.anyOf) : Validate(Defs(S.anyOf[i]), x, path) = <<>> THEN <<>>
           ELSE <<Err(path, Repr(x) \o " is not valid under any of the given schemas")>>
      [] S.k = "string" -> TypeErrors(S, x, path) \o StringKeywordErrors(S, x, path)
      [] S.k \in {"boolean", "integer"} -> TypeErrors(S, x, path)
      [] S.k = "array" ->
           TypeErrors(S, x, path)
           \o (IF IsList(x)
               THEN Flatten([i \in 1..Len(x.v) |-> Validate(S.items, x.v[i], PathAdd(path, NatStr(i - 1)))])
               ELSE <<>>)
      [] S.k = "object" ->
           TypeErrors(S, x, path)
           \o (IF IsObj(x)
               THEN Flatten([j \in 1..Len(S.order) |->
                      CASE S.order[j] = "additionalProperties" -> AdditionalErrors(S, x, path)
                        [] S.order[j] = "required" -> RequiredErrors(S, x, path)
                        [] S.order[j] = "properties" ->
                             Flatten([i \in 1..Len(S.properties) |->
                                        IF Has(x, S.properties[i][1])
                                        THEN Validate(S.properties[i][2], Get(x, S.properties[i][1]),
                                                      PathAdd(path, S.properties[i][1]))
                                        ELSE <<>>])])
               ELSE <<>>)

\* validate_against_schema
validate_against_schema(c) == Validate(CIR_JSON_SCHEMA, c, "")

(***************************************************************************)
(* validators.py: validate_and_normalize_cir                               *)
(***************************************************************************)
RECURSIVE collect_refs(_)
\* collect_refs(node, bag): what it appends to the bag, in order
collect_refs(node) ==
    (IF Get(node, "kind") = Str("item") /\ Truthy(Get(node, "ref")) THEN <<Get(node, "ref")>> ELSE <<>>)
    \o Flatten([i \in 1..Len(Elems(Get(node, "items"))) |-> collect_refs(Elems(Get(node, "items"))[i])])

RECURSIVE CollectRefsRaises(_)
\* collect_refs raises on this node
CollectRefsRaises(node) ==
    \/ ~IsObj(node)
    \/ IsObj(node) /\ NotAList(Get(node, "items"))
    \/ IsObj(node) /\ \E i \in 1..Len(Elems(Get(node, "items"))) : CollectRefsRaises(Elems(Get(node, "items"))[i])

\* the bag of collect_refs over cir.get("sections", [])
AllRefs(c) == Flatten([i \in 1..Len(Elems(Get(c, "sections"))) |-> collect_refs(Elems(Get(c, "sections"))[i])])

\* refs.count(r)
Count(refs, r) == Cardinality({i \in 1..Len(refs) : refs[i] = r})

\* a faulty duplicate search, which finds nothing
NoDupes(refs) == {}

\* dupes = {r for r in refs if refs.count(r) > 1}
Dupes(refs) == {refs[i] : i \in {j \in 1..Len(refs) : Count(refs, refs[j]) > 1}}

\* making or sorting the set of duplicates raises: a reference that is no hashable
\* value, or values that cannot be compared
DupesUnsortable(dupes) ==
    \/ \E r \in dupes : Unhashable(r)
    \/ \E r \in dupes : ~IsStr(r) /\ Cardinality(dupes) > 1

\* the duplicate check raises: a node the walk cannot read, or duplicates that cannot
\* be listed
DupesRaise(c) ==
    \/ \E i \in 1..Len(Elems(Get(c, "sections"))) : CollectRefsRaises(Elems(Get(c, "sections"))[i])
    \/ DupesUnsortable(Dupes(AllRefs(c)))

\* a faulty duplicate report, which says nothing
BlankIssue(dupes) == ""

\* f"duplicate item refs: {sorted(list(dupes))}"
DupesIssue(dupes) ==
    IF \A r \in dupes : IsStr(r)
    THEN "duplicate item refs: " \o ReprStrs(Sorted({r.v : r \in dupes}))
    ELSE "duplicate item refs: [" \o Repr(CHOOSE r \in dupes : TRUE) \o "]"

\* steps 2 to 4 raise on the normalized tree
AfterNormalizeRaises(c) ==
    ApplyHeuristicsRaises(c) \/ DupesRaise(_apply_heuristics(c, <<>>).d)

\* validate_and_normalize_cir raises
ValidateRaises(c) ==
    NormalizeRaises(c) \/ AfterNormalizeRaises(normalize_enums_and_defaults(c).cir)

\* the result dict, for the repaired tree h with its issues, the schema errors and the
\* duplicates
Checked(h, errors, dupes) ==
    [ok |-> Len(errors) = 0 /\ dupes = {},
     issues |-> h.issues \o errors \o (IF dupes # {} THEN <<DupesIssue(dupes)>> ELSE <<>>),
     cir |-> h.d,
     schema_errors |-> errors]

\* steps 3 and 4: schema validation and duplicate refs
CheckTree(h) == Checked(h, validate_against_schema(h.d), Dupes(AllRefs(h.d)))

\* step 2 on the outcome n of step 1, and the steps after it
AfterNormalize(n) == CheckTree(_apply_heuristics(n.cir, n.issues))

\* validate_and_normalize_cir, as {"ok", "issues", "cir"} and the schema errors
validate_and_normalize_cir(c) == AfterNormalize(normalize_enums_and_defaults(c))

(***************************************************************************)
(* composer.py.  An Element is its tag, its attributes in the order they   *)
(* were set, its text ("" for none) and its children.  The composer runs   *)
(* on trees the schema accepted, so a field holds a value of its type.     *)
(***************************************************************************)
\* Element(tag)
Element(tag) == [tag |-> tag, attrib |-> <<>>, text |-> "", children |-> <<>>]

\* SubElement(parent, tag) followed by the build-up of the child
SubElement(parent, child) == [parent EXCEPT !.children = Append(@, child)]

\* el.set(k, vs), for a name not set before
SetAttr(el, k, vs) == [el EXCEPT !.attrib = Append(@, <<k, vs>>)]

\* an element with the given children
WithChildren(tag, children) == [Element(tag) EXCEPT !.children = children]

\* an element with the given text
WithText(tag, text) == [Element(tag) EXCEPT !.text = text]

\* str(v)
PyStr(v) == IF IsStr(v) THEN v.v ELSE Repr(v)

\* _attr, one pair whose value is not None: "vs = str(v); if vs == '': continue"
AttrStr(el, k, vs) == IF vs = "" THEN el ELSE SetAttr(el, k, vs)

\* _attr, one pair
AttrPair(el, k, v) == IF IsNull(v) THEN el ELSE AttrStr(el, k, PyStr(v))

RECURSIVE _attr(_, _)
\* _attr: set the attributes in order, skipping None and ""
_attr(el, pairs) ==
    IF pairs = <<>> THEN el
    ELSE _attr(AttrPair(el, Head(pairs)[1], Head(pairs)[2]), Tail(pairs))

\* _set_bool_attr
_set_bool_attr(el, name, val) ==
    IF IsNull(val) THEN el ELSE SetAttr(el, name, IF Truthy(val) THEN "true" ELSE "false")

\* _set_bool_attr(el, name, d.get(name)) for each name in turn
RECURSIVE BoolAttrs(_, _, _)
BoolAttrs(el, d, names) ==
    IF names = <<>> THEN el
    ELSE BoolAttrs(_set_bool_attr(el, Head(names), Get(d, Head(names))), d, Tail(names))

\* _text, for a value that is not None and whose str() is s
TextStr(parent, tag, s) == IF Strip(s) # "" THEN SubElement(parent, WithText(tag, s)) ELSE parent

\* _text
_text(parent, tag, value) == IF IsNull(value) THEN parent ELSE TextStr(parent, tag, PyStr(value))

\* "if node.get(key): _text(el, tag, node[key])"
TextIf(el, tag, node, key) == IF Truthy(Get(node, key)) THEN _text(el, tag, Get(node, key)) ELSE el

\* TextIf for each <<tag, key>> in turn
RECURSIVE TextsIf(_, _, _)
TextsIf(el, node, tagKeys) ==
    IF tagKeys = <<>> THEN el
    ELSE TextsIf(TextIf(el, Head(tagKeys)[1], node, Head(tagKeys)[2]), node, Tail(tagKeys))

\* "if node.get(a): ... elif node.get(b): ...": the key that is read
FirstKey(node, a, b) == IF Truthy(Get(node, a)) THEN a ELSE b

\* _write_validators: the validators it considers
ValidatorsOf(v_single, v_list) ==
    IF IsList(v_list) /\ Truthy(v_list)
    THEN SelectSeq(v_list.v, IsObj)
    ELSE IF IsObj(v_single) THEN <<v_single>> ELSE <<>>

ValidatorList(node) == ValidatorsOf(Get(node, "validator"), Get(node, "validators"))

\* "if v.get('allowEmpty') is not None: _set_bool_attr(vv, 'allowEmpty', ...)"
AllowEmptyAttr(vv, v) ==
    IF ~IsNull(Get(v, "allowEmpty")) THEN _set_bool_attr(vv, "allowEmpty", Get(v, "allowEmpty")) ELSE vv

\* _write_validators: the <validator> of one validator
ValidatorElement(v) ==
    AllowEmptyAttr(_attr(Element("validator"),
                         << <<"type", Get(v, "type")>>, <<"format", Get(v, "format")>>,
                            <<"message", Get(v, "message")>>, <<"validIf", Get(v, "validIf")>> >>),
                   v)

RECURSIVE WriteValidators(_, _)
WriteValidators(el, validators) ==
    IF validators = <<>> THEN el
    ELSE IF ~\E k \in {"type", "validIf", "format", "message", "allowEmpty"} : Truthy(Get(Head(validators), k))
    THEN WriteValidators(el, Tail(validators))
    ELSE WriteValidators(SubElement(el, ValidatorElement(Head(validators))), Tail(validators))

\* _write_validators
_write_validators(el, node) == WriteValidators(el, ValidatorList(node))

\* "for h in node['hints']": what the loop yields, as values
Iterate(xs) ==
    CASE IsList(xs) -> xs.v
      [] IsStr(xs)  -> [i \in 1..Len(xs.v) |-> Str(Char(xs.v, i))]
      [] IsObj(xs)  -> StrList(Sorted(DOMAIN xs.v)).v
      [] OTHER      -> <<>>

\* <hints> with a <hint>str(h)</hint> for each h
HintsElement(hs) == WithChildren("hints", [i \in 1..Len(hs) |-> WithText("hint", PyStr(hs[i]))])

\* "if node.get('hints'): hints = SubElement(el, 'hints'); for h in ...: <hint>str(h)</hint>"
WriteHints(el, node) ==
    IF Truthy(Get(node, "hints"))
    THEN SubElement(el, HintsElement(Iterate(Get(node, "hints"))))
    ELSE el

\* the texts of a choice, as <<tag, key>>
ChoiceTexts == << <<"display", "display">>, <<"note", "note">> >>

\* the <choice> of one choice
ChoiceElement(c) ==
    TextsIf(_attr(Element("choice"),
                  << <<"val", Get(c, "val")>>, <<"points", Get(c, "points")>>, <<"flag", Get(c, "flag")>> >>),
            c, ChoiceTexts)

\* <choices> with a <choice> for each dict among cs
ChoicesElement(cs) == WithChildren("choices", [i \in 1..Len(cs) |-> ChoiceElement(cs[i])])

\* "if node.get('choices'): chs = SubElement(el, 'choices'); ..."
WriteChoices(el, node) ==
    IF Truthy(Get(node, "choices"))
    THEN SubElement(el, ChoicesElement(SelectSeq(Iterate(Get(node, "choices")), IsObj)))
    ELSE el

\* the attributes of <dxCode>, one for each of the first three parts
DxNames == <<"code", "desc", "type">>

DxAttrs(parts) ==
    [i \in 1..(IF Len(parts) > Len(DxNames) THEN Len(DxNames) ELSE Len(parts)) |->
        <<DxNames[i], parts[i]>>]

\* the <dxCode> of "code|desc|type"
DxCodeElement(dxCode) == [Element("dxCode") EXCEPT !.attrib = DxAttrs(Split(dxCode, "|"))]

\* "if node.get('dxCode'): dx = SubElement(el, 'dxCode'); ..."
WriteDxCode(el, node) ==
    IF Truthy(Get(node, "dxCode")) THEN SubElement(el, DxCodeElement(Get(node, "dxCode").v)) ELSE el

\* itype of _compose_item
ComposeType(node) == Upper(Or(Get(node, "type"), Str("LABEL")).v)

\* the types with a tag of their own
MediaTypes == {"PICTURE", "VIDEO", "DIAGRAM"}

\* _compose_item, the branch of PICTURE/VIDEO/DIAGRAM
MediaElement(node, itype) ==
    _set_bool_attr(
        _attr(Element(Lower(itype)),
              << <<"ref", Get(node, "ref")>>, <<"x", Get(node, "x")>>, <<"y", Get(node, "y")>>,
                 <<"showIf", Get(node, "showIf")>>, <<"makeNoteIf", Get(node, "makeNoteIf")>>,
                 <<"noteIndex", Get(node, "noteIndex")>> >>),
        "ownLine", Get(node, "ownLine"))

\* the texts of a regular item, as <<tag, key>>, in the order they are written
ItemTexts(node) ==
    << <<"c", "label">>, <<"text", "text">>, <<"cNote", FirstKey(node, "cNote", "note")>>,
       <<"tooltip", "tooltip">>, <<"studyColumnHeader", "studyColumnHeader">>,
       <<"markableDiagramFileName", "markableDiagramFileName">> >>

\* _compose_item, the regular item: the element with its attributes
ItemStart(node, itype) ==
    BoolAttrs(_attr(Element("item"),
                    << <<"ref", Get(node, "ref")>>, <<"type", Str(itype)>>,
                       <<"x", Get(node, "x")>>, <<"y", Get(node, "y")>>,
                       <<"formula", Get(node, "formula")>>, <<"showIf", Get(node, "showIf")>>,
                       <<"makeNoteIf", Get(node, "makeNoteIf")>>, <<"noteIndex", Get(node, "noteIndex")>>,
                       <<"flag", Get(node, "flag")>>, <<"negFlag", Get(node, "negFlag")>>,
                       <<"emrField", Get(node, "emrField")>> >>),
              node, <<"ownLine", "quoteAnswer">>)

\* _compose_item, the regular item
RegularElement(node, itype) ==
    WriteChoices(
        WriteHints(
            _write_validators(
                WriteDxCode(TextsIf(ItemStart(node, itype), node, ItemTexts(node)), node),
                node),
            node),
        node)

ItemOfType(node, itype) ==
    IF itype \in MediaTypes THEN MediaElement(node, itype) ELSE RegularElement(node, itype)

\* _compose_item: the element it adds to parent_items
ItemElement(node) == ItemOfType(node, ComposeType(node))

\* _compose_item
_compose_item(parent_items, node) == SubElement(parent_items, ItemElement(node))

\* attrs of _compose_section
ComposeAttrs(node) == IF IsObj(Get(node, "attributes")) THEN Get(node, "attributes") ELSE EmptyObj

\* _compose_section: the element with its attributes
SectionStart(node, attrs) ==
    BoolAttrs(_attr(Element("section"),
                    << <<"ref", Get(node, "ref")>>,
                       <<"subcategory", Or(Get(attrs, "subcategory"), Str("QUESTIONNAIRE"))>>,
                       <<"headerStyle", Or(Get(attrs, "headerStyle"), Str("BOLD"))>>,
                       <<"expandIf", Get(attrs, "expandIf")>>, <<"showIf", Get(attrs, "showIf")>>,
                       <<"makeNoteIf", Get(attrs, "makeNoteIf")>>, <<"flag", Get(attrs, "flag")>>,
                       <<"noteIndex", Get(attrs, "noteIndex")>> >>),
              attrs, <<"groupItems", "quoteAnswers", "ownLine">>)

\* _compose_section: caption and hints
SectionHead(node) ==
    WriteHints(TextIf(SectionStart(node, ComposeAttrs(node)), "c", node,
                      FirstKey(node, "header", "title")),
               node)

RECURSIVE SectionElement(_), ChildElement(_), ItemsElement(_)
\* the loop body of _compose_section, for a child that is a section or an item
ChildElement(ch) ==
    IF Get(ch, "kind") = Str("section") THEN SectionElement(ch) ELSE ItemElement(ch)

\* a faulty <items>, which writes the children last to first
ItemsReversed(kids) ==
    WithChildren("items", [i \in 1..Len(kids) |-> ChildElement(kids[Len(kids) + 1 - i])])

\* <items> with the element of each child
ItemsElement(kids) == WithChildren("items", [i \in 1..Len(kids) |-> ChildElement(kids[i])])

\* _compose_section: the element it adds to parent_items
SectionElement(node) ==
    TextIf(SubElement(SectionHead(node),
                      ItemsElement(SelectSeq(Elems(Get(node, "items")),
                                             LAMBDA ch : Get(ch, "kind") \in {Str("section"), Str("item")}))),
           "listSep", node, "listSep")

\* _compose_section
_compose_section(parent_items, node) == SubElement(parent_items, SectionElement(node))

\* meta.get("noteVersion", DEFAULT_NOTE_VERSION)
NoteVersion(meta) ==
    IF Has(meta, "noteVersion") THEN Get(meta, "noteVersion") ELSE Num(DEFAULT_NOTE_VERSION)

\* compose_xml: <eform> with its attributes
RootStart(meta) ==
    _attr(Element("eform"),
          << <<"ref", Get(meta, "ref")>>, <<"noteVersion", Str(PyStr(NoteVersion(meta)))>>,
             <<"title", Get(meta, "title")>>, <<"shortForm", Get(meta, "shortForm")>>,
             <<"noteType", Get(meta, "noteType")>>,
             <<"dataSecurityMode", Get(meta, "dataSecurityMode")>> >>)

\* _text(root, key, cir.get(key)) for each key in turn
RECURSIVE RootTexts(_, _, _)
RootTexts(el, c, keys) ==
    IF keys = <<>> THEN el
    ELSE RootTexts(_text(el, Head(keys), Get(c, Head(keys))), c, Tail(keys))

\* <mainSection><items> with the <section> of each section
MainSection(secs) ==
    SubElement(Element("mainSection"),
               WithChildren("items", [i \in 1..Len(secs) |-> SectionElement(secs[i])]))

\* compose_xml: the tree it builds before serialising
ComposeRoot(c) ==
    SubElement(RootTexts(RootStart(IF Has(c, "meta") THEN Get(c, "meta") ELSE EmptyObj), c,
                         <<"tagLine", "desc", "keywords">>),
               MainSection(SelectSeq(Elems(Get(c, "sections")),
                                     LAMBDA s : IsObj(s) /\ Get(s, "kind") = Str("section"))))

RECURSIVE Escape(_)
\* minidom's _write_data: & < " > replaced by their entities
Escape(s) ==
    IF s = "" THEN ""
    ELSE (CASE Char(s, 1) = "&"  -> "&amp;"
            [] Char(s, 1) = "<"  -> "&lt;"
            [] Char(s, 1) = "\"" -> "&quot;"
            [] Char(s, 1) = ">"  -> "&gt;"
            [] OTHER -> Char(s, 1))
         \o Escape(From(s, 2))

\* the attributes of a start tag
WriteAttrs(attrib) == Join([i \in 1..Len(attrib) |-> " " \o attrib[i][1] \o "=\"" \o Escape(attrib[i][2]) \o "\""], "")

RECURSIVE WriteXml(_, _), WriteElement(_, _, _)
\* an element whose start tag, up to the closing bracket, is open
WriteElement(el, indent, open) ==
    IF el.children = <<>> /\ el.text = "" THEN open \o "/>\n"
    ELSE IF el.children = <<>> THEN open \o ">" \o Escape(el.text) \o "</" \o el.tag \o ">\n"
    ELSE open \o ">\n"
         \o Join([i \in 1..Len(el.children) |-> WriteXml(el.children[i], indent \o "  ")], "")
         \o indent \o "</" \o el.tag \o ">\n"

\* toprettyxml(indent="  ") of an element at the given indentation
WriteXml(el, indent) == WriteElement(el, indent, indent \o "<" \o el.tag \o WriteAttrs(el.attrib))

\* minidom.parseString(tostring(root, encoding="utf-8")).toprettyxml(indent="  ", encoding="utf-8")
ToPrettyXml(top) == "<?xml version=\"1.0\" encoding=\"utf-8\"?>\n" \o WriteXml(top, "")

\* compose_xml
compose_xml(c) == ToPrettyXml(ComposeRoot(c))

(***************************************************************************)
(* The trees the pipeline is run on.  A request body is any JSON object    *)
(* (main.py hands it to the validator as it came); the pool below holds    *)
(* well-formed forms, forms as a language model drafts them, and malformed *)
(* ones.                                                                   *)
(***************************************************************************)
\* how often one tree may go through auto_repair_cir
MaxRepairs == 2

Item(ref, type) == Obj([kind |-> Str("item"), ref |-> Str(ref), type |-> Str(type)])

\* d with d[k] = v, or d itself when v is None
With(d, k, v) == IF IsNull(v) THEN d ELSE Put(d, k, v)

Section(ref, items) == Obj([kind |-> Str("section"), ref |-> Str(ref), items |-> List(items)])

MetaOk ==
    Obj([ref |-> Str("F"), title |-> Str("T"), noteVersion |-> Num(2),
         noteType |-> Str("progress"), dataSecurityMode |-> Str("encrypted")])

Form(meta, sections) == Obj([meta |-> meta, sections |-> List(sections)])

\* the items that stand before the item under study
Companions ==
    { <<Item("q1", "TEXT_FIELD_NUMERIC"), Item("q2", "CHECKBOX"), Item("q3", "MENU")>>,
      <<Item("q1", "TEXT_FIELD_NUMERIC"), Item("q2", "CHECKBOX"), Item("p", "TEXT_FIELD")>>,
      <<Item("q1", "TEXT_FIELD_NUMERIC"), Item("x", "CHECKBOX")>> }

PlainCompanions == <<Item("q1", "TEXT_FIELD_NUMERIC"), Item("q2", "CHECKBOX"), Item("q3", "MENU")>>

SectionNames == {"s1", "x"}

Formulas ==
    {"SUM(q1,q2)", "SUM(q1,q2,q3)", "SUM(s1)", "SUM(x)", "SUM(q1)", "SUM(q1, zz)",
     "q1 > 3", "q1 + q2", "ScriptUtil.sum(s1)", "q1.p + q2.p"}

FormulaItems == {Put(Item("f", "FORMULA"), "formula", Str(f)) : f \in Formulas}

Texts == {"@ptCpp.firstName", "What is your name?", "Total $$", "  ", " Your email "}

TextItems ==
    {With(Put(Item("t1", type), "text", Str(text)), "label", label) :
        type \in {"LABEL", "TEXT_FIELD", "FORMULA", "label"}, text \in Texts, label \in {Null, Str("L")}}

RefItems ==
    {Item(ref, "TEXT_FIELD") : ref \in {"q1\n", "q1", "a b", "dup1", ""}}
    \cup {Obj([kind |-> Str("item"), type |-> Str("TEXT_FIELD"), text |-> Str("Pain level?")]),
          Obj([type |-> Str("text_field"), ref |-> Str("n1")])}

Tri == {Null, Bool(TRUE), Bool(FALSE)}

MediaItems ==
    {With(With(Item("m1", type), "quoteAnswer", qa), "ownLine", ol) :
        type \in {"PICTURE", "VIDEO", "DIAGRAM", "CHECKBOX"}, qa \in Tri, ol \in Tri}

RichItems ==
    { Put(Item("r1", "CHECKBOX"), "subcategory", Str("HPI")),
      Put(Put(Item("r2", "PICTURE"), "tooltip", Str("tip")), "markableDiagramFileName", Str("knee.png")),
      Put(Item("r3", "TEXT_FIELD"), "dxCode", Str("250|Diabetes|ICD9|extra")),
      Put(Put(Item("r4", "TEXT_FIELD"), "validator", Obj([allowEmpty |-> Bool(FALSE)])), "tooltip", Str("tip")),
      Put(Put(Item("r5", "MENU"), "choices",
              List(<<Obj([val |-> Str("1"), display |-> Str("One"), points |-> Str("1")]),
                     Obj([val |-> Str("2"), note |-> Str("two"), flag |-> Str("RED")])>>)),
          "hints", List(<<Str("BORDER")>>)),
      Put(Put(Item("r6", "TEXT_FIELD"), "validator",
              Obj([type |-> Str("email"), message |-> Str("m")])), "flag", Str("red")),
      Put(Item("r7", "MENU"), "choices",
          List(<<Obj([val |-> Str("0")]), Obj([val |-> Str("1")]), Obj([val |-> Str("2")])>>)),
      Put(Put(Item("r8", "MENU"), "choices",
              List(<<Obj([val |-> Str("b"), display |-> Str("B")]), Obj([val |-> Str("a"), display |-> Str("A")]),
                     Obj([val |-> Str("c"), display |-> Str("C")])>>)),
          "hints", List(<<Str("USE_DROPDOWN_MENU"), Str("BORDER")>>)) }

\* conditions: a known Item identifier compared with a right-hand side, alone, or
\* next to an arithmetic operator
Comparators == {"==", "!=", "<"}

NumericRhs == {"5", "2.5"}

QuotedRhs == {"'yes'", "'5'"}

BooleanRhs == {"y", "false"}

Comparison(x, op, rhs) == x \o " " \o op \o " " \o rhs

Conditions ==
    {Comparison("q1", op, rhs) : op \in Comparators, rhs \in NumericRhs \cup QuotedRhs \cup BooleanRhs}
    \cup {"q1", "q1 && q2", "q2 + q1 == 'yes'", "q1 + q2 > 3", "2 * q1"}

ConditionItems == {Put(Item("c1", "TEXT_FIELD"), "showIf", Str(e)) : e \in Conditions}

MalformedItems ==
    { Null, Str("x"), Num(5),
      Obj([kind |-> Str("item"), ref |-> Str("b1"), type |-> Num(5)]),
      Obj([kind |-> Str("item"), ref |-> Num(5), type |-> Str("TEXT_FIELD")]),
      Obj([kind |-> Str("item"), ref |-> Str("b2"), type |-> Str("TEXT_FIELD"), text |-> Num(5)]) }

\* the item under study as the last item of the section, inside a nested section, or in
\* a second top-level section
Shapes(name, before, item) ==
    { <<Section(name, before \o <<item>>)>>,
      <<Section(name, before \o <<Section("n1", <<item>>)>>)>>,
      <<Section(name, before), Section("s2", <<item>>)>> }

SectionBags ==
    {Obj([g \in {"groupItems", "quoteAnswers", "ownLine"} |-> b]) : b \in {Bool(TRUE), Bool(FALSE)}}
    \cup {EmptyObj, Obj([headerStyle |-> Str("bold"), flag |-> Str("Red")]), Obj([subcategory |-> Str("HPI")])}

Metas ==
    { MetaOk, Null, EmptyObj,
      Put(MetaOk, "ref", Str("F\n")),
      Put(MetaOk, "ref", Str("my form")),
      Put(Put(MetaOk, "noteType", Str("PROGRESS")), "dataSecurityMode", Str("Encrypted")),
      Put(MetaOk, "noteType", Num(5)),
      Put(Put(MetaOk, "noteVersion", Str("2")), "shortForm", Str("sf")) }

OddForms ==
    { EmptyObj,
      Obj([sections |-> Null]),
      Obj([meta |-> MetaOk]),
      Obj([meta |-> MetaOk, sections |-> List(<<Null>>)]),
      Obj([meta |-> MetaOk, sections |-> List(<<Str("x")>>)]),
      Obj([meta |-> MetaOk, sections |-> List(<<Obj([items |-> List(<<Obj([ref |-> Str("a")])>>)])>>)]),
      Obj([meta |-> MetaOk, sections |-> List(<<Section("s1", <<>>)>>), desc |-> Str("a < b"),
           tagLine |-> Str("tag"), keywords |-> Str("k")]),
      Obj([meta |-> MetaOk,
           sections |-> List(<<Obj([kind |-> Str("section"), ref |-> Str("s1"),
                                   items |-> List(<<Item("q1", "CHECKBOX")>>),
                                   groupItems |-> Bool(TRUE), showIf |-> Str("q1 > 1"),
                                   header |-> Str("Head"), hints |-> List(<<Str("BORDER")>>)])>>)]) }

\* a top-level Section holding one MENU Item without identifier, with a prompt (as text or
\* as label) and three or six choices that are bare numeric value tokens
ScenarioChoices == {<<"0", "1", "2">>, <<"1", "2", "3", "4", "5", "6">>}

ScenarioPrompt == "Pain level?"

ScenarioItem(key, vals) ==
    Obj([kind |-> Str("item"), type |-> Str("MENU"),
         choices |-> List([i \in DOMAIN vals |-> Obj([val |-> Str(vals[i])])])]
        @@ (key :> Str(ScenarioPrompt)))

ScenarioForms ==
    {Form(MetaOk, <<Section("s1", <<ScenarioItem(key, vals)>>)>>) :
        key \in {"text", "label"}, vals \in ScenarioChoices}

\* an Item whose identifier has to be rewritten, or generated, after an Item that
\* already carries the identifier the rewrite arrives at
RefClashForms ==
    { Form(MetaOk, <<Section("s1", <<Item("a_b", "TEXT_FIELD"), Item("a b", "CHECKBOX")>>)>>),
      Form(MetaOk, <<Section("s1", <<Item("item_1", "TEXT_FIELD"),
                                     Obj([kind |-> Str("item"), type |-> Str("CHECKBOX")])>>)>>) }

\* where a Section states its display category: nowhere, in its attribute bag, at its
\* top level, or in both places
CategoryHows == {"none", "bag", "top", "both"}

Categorized(sec, how) ==
    CASE how = "none" -> sec
      [] how = "bag" -> Put(sec, "attributes", Obj([subcategory |-> Str("HPI")]))
      [] how = "top" -> Put(sec, "subcategory", Str("PMH"))
      [] OTHER -> Put(Put(sec, "attributes", Obj([subcategory |-> Str("HPI")])), "subcategory", Str("PMH"))

\* a first top-level Section with a nested Section, and a second top-level Section
CategoryForms ==
    {Form(MetaOk, <<Categorized(Section("s1", <<Item("q1", "CHECKBOX"),
                                                Categorized(Section("n1", <<Item("q2", "CHECKBOX")>>), h2)>>), h1),
                    Categorized(Section("s2", <<Item("q3", "CHECKBOX")>>), h2)>>) :
        h1 \in CategoryHows, h2 \in CategoryHows}

\* attribute fields a producer puts at the top level of a Section
TopFields ==
    {<<"headerStyle", Str("BOLD")>>, <<"groupItems", Bool(TRUE)>>, <<"flag", Str("RED")>>,
     <<"noteIndex", Str("1")>>}

\* a Section without Items that carries one such field, without attribute bag or with
\* a bag that holds another value, or an empty one
TopLevelForms ==
    {Form(MetaOk, <<With(Put(Section("s1", <<>>), f[1], f[2]), "attributes", bag)>>) :
        f \in TopFields, bag \in {Null, Obj([headerStyle |-> Str("ITALIC")]), Obj([flag |-> Str("")])}}

\* menus of two, three and seven choices, without hint or with one menu-presentation hint
MenuVals == {<<"a", "b">>, <<"a", "b", "c">>, <<"a", "b", "c", "d", "e", "f", "g">>}

MenuHintsGiven ==
    {Null, List(<<Str("USE_BUTTONS_FOR_MENU")>>), List(<<Str("USE_DROPDOWN_MENU")>>),
     List(<<Str("USE_SEARCHABLE_MENU")>>)}

MenuItem(vals, given) ==
    With(Put(Item("m1", "MENU"), "choices", List([i \in DOMAIN vals |-> Obj([val |-> Str(vals[i])])])),
         "hints", given)

MenuForms ==
    {Form(MetaOk, <<Section("s1", <<MenuItem(vals, given)>>)>>) : vals \in MenuVals, given \in MenuHintsGiven}

\* prompts with a keyword of the validator heuristic, given as text or as label
KeywordPrompts == {"Your email", "Phone number", "Postal code"}

PromptForms ==
    {Form(MetaOk, <<Section("s1", <<Put(Item("k1", "TEXT_FIELD"), key, Str(prompt))>>)>>) :
        key \in {"text", "label"}, prompt \in KeywordPrompts}

\* an Item whose text holds two keywords of the validator heuristic, with a full
\* validator, a validator of one of the two kinds, a validator without kind, or none
GivenValidators ==
    { Obj([type |-> Str("REG_EXP"), format |-> Str("[0-9]+"), message |-> Str("m"),
           allowEmpty |-> Bool(FALSE), validIf |-> Str("q1.r == 'y'")]),
      Obj([type |-> Str("PHONE")]),
      Obj([message |-> Str("m")]),
      Null }

ValidatorForms ==
    {Form(MetaOk, <<Section("s1", <<With(Put(Item("v1", "TEXT_FIELD"), "text", Str("Email or phone")),
                                         "validator", given)>>)>>) : given \in GivenValidators}

\* a menu whose second value token holds the packing separator
PackedForms ==
    {Form(MetaOk, <<Section("s1", <<MenuItem(<<"a", "b|c">>, Null)>>)>>)}

\* an Item without identifier before, or after, the Item that carries the identifier
\* the generation arrives at
GeneratedClashForms ==
    { Form(MetaOk, <<Section("s1", <<Obj([kind |-> Str("item"), type |-> Str("CHECKBOX")]),
                                     Item("item_1", "TEXT_FIELD")>>)>>),
      Form(MetaOk, <<Section("s1", <<Obj([kind |-> Str("item"), type |-> Str("CHECKBOX")]),
                                     Item("q1", "TEXT_FIELD"),
                                     Obj([kind |-> Str("item"), type |-> Str("CHECKBOX")])>>)>>) }

Inputs ==
    ScenarioForms
    \cup GeneratedClashForms
    \cup PackedForms
    \cup ValidatorForms
    \cup PromptForms
    \cup MenuForms
    \cup TopLevelForms
    \cup CategoryForms
    \cup RefClashForms
    \cup
    {Form(MetaOk, sections) :
        sections \in UNION {Shapes(name, before, item) :
                              name \in SectionNames, before \in Companions, item \in FormulaItems}}
    \cup {Form(MetaOk, sections) :
            sections \in UNION {Shapes("s1", PlainCompanions, item) :
                                  item \in TextItems \cup RefItems \cup MediaItems \cup RichItems \cup MalformedItems
                                           \cup ConditionItems}}
    \cup {Form(meta, <<Section("s1", PlainCompanions)>>) : meta \in Metas}
    \cup {Form(MetaOk, <<Put(Section("s1", PlainCompanions), "attributes", bag)>>) : bag \in SectionBags}
    \cup OddForms

(***************************************************************************)
(* The pipeline: a tree is received, may go through auto_repair_cir        *)
(* (openai_client.py), is validated (main.py), and is composed when it was *)
(* accepted or answered with status 400 when it was not.                   *)
(***************************************************************************)
\* no response has been sent
NoResponse == [status |-> "none"]

\* a faulty client error, which leaves the issues out
ClientErrorBare(found) == [status |-> "400", issues |-> <<>>]

\* JSONResponse({"ok": False, "issues": v["issues"]}, status_code=400), and
\* HTTPException(status_code=400, detail={"issues": v["issues"]})
ClientError(found) == [status |-> "400", issues |-> found]

\* the XML with the header X-Issues-Count
XmlResponse(body, found) == [status |-> "200", body |-> body, issues_count |-> Len(found)]

Init ==
    /\ input \in Inputs
    /\ cir = input
    /\ prev = input
    /\ pc = "received"
    /\ repairs = 0
    /\ ok = FALSE
    /\ issues = <<>>
    /\ schema_errors = <<>>
    /\ root = Element("")
    /\ xml = ""
    /\ response = NoResponse
    /\ reqs = <<>>

\* openai_client.py: cir = auto_repair_cir(cir)
AutoRepair ==
    /\ pc \in {"received", "repaired"}
    /\ repairs < MaxRepairs
    /\ repairs' = repairs + 1
    /\ IF AutoRepairRaises(cir)
       THEN pc' = "repair_raised" /\ UNCHANGED <<cir, prev>>
       ELSE pc' = "repaired" /\ prev' = cir /\ cir' = auto_repair_cir(cir)
    /\ UNCHANGED <<input, ok, issues, schema_errors, root, xml, response, reqs>>

\* main.py: the result of validate_and_normalize_cir is kept
Validated(result) ==
    /\ pc' = "validated"
    /\ prev' = cir
    /\ cir' = result.cir
    /\ ok' = result.ok
    /\ issues' = result.issues
    /\ schema_errors' = result.schema_errors

\* main.py: result = validate_and_normalize_cir(cir)
ValidateAndNormalize ==
    /\ pc \in {"received", "repaired"}
    /\ IF ValidateRaises(cir)
       THEN pc' = "validate_raised" /\ UNCHANGED <<cir, prev, ok, issues, schema_errors>>
       ELSE Validated(validate_and_normalize_cir(cir))
    /\ UNCHANGED <<input, repairs, root, xml, response, reqs>>

\* main.py: if not result["ok"]: raise HTTPException(status_code=400, ...)
Respond400 ==
    /\ pc = "validated"
    /\ ~ok
    /\ pc' = "rejected"
    /\ response' = ClientError(issues)
    /\ UNCHANGED <<input, cir, prev, repairs, ok, issues, schema_errors, root, xml, reqs>>

\* main.py: xml_bytes = compose_xml(result["cir"])
ComposeXml ==
    /\ pc = "validated"
    /\ ok
    /\ pc' = "composed"
    /\ root' = ComposeRoot(cir)
    /\ xml' = ToPrettyXml(root')
    /\ response' = XmlResponse(xml', issues)
    /\ UNCHANGED <<input, cir, prev, repairs, ok, issues, schema_errors, reqs>>

Next == AutoRepair \/ ValidateAndNormalize \/ Respond400 \/ ComposeXml

Spec == Init /\ [][Next]_vars

(***************************************************************************)
(* Two requests in flight at once (the server handles the requests of its  *)
(* clients side by side).  Each request has its own tree: the body FastAPI *)
(* parsed for it, the deep copy auto_repair_cir makes, the dict            *)
(* validate_and_normalize_cir changes in place, and the lists and elements *)
(* the functions build.  The modules hold no object that a request writes: *)
(* the compiled patterns, the enum sets and CIR_JSON_SCHEMA are only read. *)
(***************************************************************************)
Requests == {"a", "b"}

\* the trees the two requests carry
PairInputs ==
    { Form(MetaOk, <<Section("s1", PlainCompanions \o <<Put(Item("f", "FORMULA"), "formula", Str("SUM(q1,q2)"))>>)>>),
      Form(MetaOk, <<Section("s1", PlainCompanions \o <<Item("q1", "TEXT_FIELD")>>)>>),
      Form(MetaOk, <<Section("s1", <<Item("a b", "TEXT_FIELD"), Item("a_b", "CHECKBOX")>>)>>),
      Form(MetaOk, <<Section("s1", <<ScenarioItem("text", <<"0", "1", "2">>)>>)>>),
      Form(EmptyObj, <<Section("s1", PlainCompanions)>>),
      Form(MetaOk, <<Section("s1", <<Put(Item("m", "MENU"), "choices",
                                         List(<<Obj([val |-> Str("1")]), Obj([val |-> Str("2")]),
                                                Obj([val |-> Str("3")])>>))>>)>>) }

\* a request as it arrives
Request(tree) == [pc |-> "received", input |-> tree, cir |-> tree, ok |-> FALSE, issues |-> <<>>, xml |-> ""]

InitPair ==
    /\ reqs \in {f \in [Requests -> {Request(t) : t \in PairInputs}] : f["a"].input # f["b"].input}
    /\ pc = "idle"
    /\ input = EmptyObj
    /\ cir = EmptyObj
    /\ prev = EmptyObj
    /\ repairs = 0
    /\ ok = FALSE
    /\ issues = <<>>
    /\ schema_errors = <<>>
    /\ root = Element("")
    /\ xml = ""
    /\ response = NoResponse

\* the steps of the two requests leave the single-request machine alone
SoloIdle == UNCHANGED <<pc, input, cir, prev, repairs, ok, issues, schema_errors, root, xml, response>>

\* a faulty hand-over, which gives a request the tree of the other one
OtherTree(r) == reqs[CHOOSE o \in Requests : o # r].cir

\* the tree a step of request r works on: the one the request holds
OwnTree(r) == reqs[r].cir

\* openai_client.py: cir = auto_repair_cir(cir)
RepairOf(r) ==
    /\ reqs[r].pc = "received"
    /\ ~AutoRepairRaises(OwnTree(r))
    /\ reqs' = [reqs EXCEPT ![r].pc = "repaired", ![r].cir = auto_repair_cir(OwnTree(r))]
    /\ SoloIdle

\* the request q with the result v of its validation
ValidatedRequest(q, v) == [q EXCEPT !.pc = "validated", !.cir = v.cir, !.ok = v.ok, !.issues = v.issues]

\* main.py: v = validate_and_normalize_cir(cir)
ValidateOf(r) ==
    /\ reqs[r].pc = "repaired"
    /\ ~ValidateRaises(OwnTree(r))
    /\ reqs' = [reqs EXCEPT ![r] = ValidatedRequest(reqs[r], validate_and_normalize_cir(OwnTree(r)))]
    /\ SoloIdle

\* main.py: if not v["ok"]: status 400
RespondOf(r) ==
    /\ reqs[r].pc = "validated"
    /\ ~reqs[r].ok
    /\ reqs' = [reqs EXCEPT ![r].pc = "rejected"]
    /\ SoloIdle

\* main.py: xml_bytes = compose_xml(v["cir"])
ComposeOf(r) ==
    /\ reqs[r].pc = "validated"
    /\ reqs[r].ok
    /\ reqs' = [reqs EXCEPT ![r].pc = "composed", ![r].xml = compose_xml(OwnTree(r))]
    /\ SoloIdle

NextPair == \E r \in Requests : RepairOf(r) \/ ValidateOf(r) \/ RespondOf(r) \/ ComposeOf(r)

SpecPair == InitPair /\ [][NextPair]_vars

(***************************************************************************)
(* Properties of the pipeline.  They read a tree through NodesOf, which    *)
(* lists the dicts of a tree in document order: each node of "sections",   *)
(* and below every node the nodes of its "items".                          *)
(***************************************************************************)
RECURSIVE NodesOf(_), NodesIn(_, _)
NodesOf(node) == IF IsObj(node) THEN <<node>> \o NodesIn(Elems(Get(node, "items")), 1) ELSE <<>>

NodesIn(xs, i) == IF i > Len(xs) THEN <<>> ELSE NodesOf(xs[i]) \o NodesIn(xs, i + 1)

TreeNodes(c) == NodesIn(Elems(Get(c, "sections")), 1)

IsItem(n) == Get(n, "kind") = Str("item")

IsSection(n) == Get(n, "kind") = Str("section")

\* the Items of a tree, in document order
ItemsOf(c) == SelectSeq(TreeNodes(c), IsItem)

\* the identifiers that more than one Item of the tree carries
RepeatedRefs(c) ==
    LET items == ItemsOf(c)
    IN  {Get(items[i], "ref") : i \in {k \in DOMAIN items :
            /\ Truthy(Get(items[k], "ref"))
            /\ \E j \in DOMAIN items : j # k /\ Get(items[j], "ref") = Get(items[k], "ref")}}

\* validate_and_normalize_cir has returned
Settled == pc \in {"validated", "rejected", "composed"}

\* C1: validate_and_normalize_cir returns ok = true if and only if the schema validator
\* reported no violation on the tree and no Item identifier occurs more than once in
\* the tree; in every other case ok = false.
C1_OkIffSchemaCleanAndRefsUnique ==
    Settled => (ok <=> (schema_errors = <<>> /\ RepeatedRefs(cir) = {}))

\* a tree without schema violation that is rejected for a repeated identifier alone
C1_RejectedForDuplicateOnly ==
    pc = "validated" /\ ~ok /\ schema_errors = <<>> /\ RepeatedRefs(cir) # {}

\* C2: for every JSON-object input, auto_repair_cir followed by
\* validate_and_normalize_cir returns a result and never raises.
C2_RepairThenValidateNeverRaises ==
    repairs = 1 => pc \notin {"repair_raised", "validate_raised"}

\* C3: repair is idempotent: a second auto_repair_cir on the tree the first one returned
\* yields an identical tree.
C3_SecondRepairChangesNothing ==
    (pc = "repaired" /\ repairs = 2) => cir = prev

\* C4: whenever two Items anywhere in the tree share an identifier after repair, the
\* result has ok = false and the issues list holds a duplicate-identifier entry that
\* names every duplicated identifier.
C4_DuplicatesRejectedAndNamed ==
    (Settled /\ RepeatedRefs(cir) # {}) =>
        /\ ~ok
        /\ \E k \in DOMAIN issues :
              /\ StartsWith(issues[k], "duplicate item refs: ")
              /\ \A r \in RepeatedRefs(cir) : Contains(issues[k], "'" \o r.v \o "'")

\* an Item inside a nested Section repeats the identifier of an Item of the Section
\* around it, and the tree has no other fault
C4_NestedDuplicateRejected ==
    /\ pc = "rejected"
    /\ schema_errors = <<>>
    /\ \E i \in DOMAIN TreeNodes(cir) :
          /\ IsSection(TreeNodes(cir)[i])
          /\ Get(TreeNodes(cir)[i], "ref") = Str("n1")
          /\ \E j \in DOMAIN Elems(Get(TreeNodes(cir)[i], "items")) :
                Get(Elems(Get(TreeNodes(cir)[i], "items"))[j], "ref") \in RepeatedRefs(cir)

\* s matches ^[A-Za-z0-9_]+$ in the sense the text gives it: non-empty, and only ASCII
\* letters, digits and underscore
OnlyWordChars(x) == IsStr(x) /\ x.v # "" /\ CharsOf(x.v) \subseteq WordChars

\* C5: in every accepted tree, meta.ref and the identifier of every Item are non-empty
\* and hold only ASCII letters, digits and underscore.
C5_AcceptedRefsAreWordChars ==
    (Settled /\ ok) =>
        /\ Has(Get(cir, "meta"), "ref") => OnlyWordChars(Get(Get(cir, "meta"), "ref"))
        /\ \A i \in DOMAIN ItemsOf(cir) : OnlyWordChars(Get(ItemsOf(cir)[i], "ref"))

\* auto_repair_cir has just run: prev is the tree it was given and cir the tree it
\* returned, whose nodes stand at the same places
JustRepaired == pc = "repaired"

\* the identifiers of the Items and of the Sections of a tree
RefsWhere(c, Test(_)) ==
    {Get(TreeNodes(c)[i], "ref").v :
        i \in {k \in DOMAIN TreeNodes(c) : Test(TreeNodes(c)[k]) /\ IsStr(Get(TreeNodes(c)[k], "ref"))}}

KnownItems(c) == RefsWhere(c, IsItem)

KnownSections(c) == RefsWhere(c, IsSection)

\* the argument lists of the SUM calls looked at
SumArgs == {<<"q1", "q2">>, <<"q1", "q2", "q3">>}

SingleArgs == {"s1", "x", "q1"}

SumCall(args) == "SUM(" \o Join(args, ",") \o ")"

PlusChain(args) == Join([i \in 1..Len(args) |-> args[i] \o ".p"], " + ")

\* C6: a formula SUM(a1,...,an), n >= 2, whose arguments are all known Item identifiers
\* is repaired to exactly a1.p + a2.p + ... + an.p, no identifier with a second suffix.
C6_SumOfItemsBecomesPlusChain ==
    JustRepaired =>
        \A i \in DOMAIN TreeNodes(prev) : \A args \in SumArgs :
            (/\ Get(TreeNodes(prev)[i], "formula") = Str(SumCall(args))
             /\ \A k \in DOMAIN args : args[k] \in KnownItems(prev))
            => Get(TreeNodes(cir)[i], "formula") = Str(PlusChain(args))

\* C7: a formula SUM(x) is repaired to ScriptUtil.sum(x) when x is a known Section
\* identifier, and to x.p when x is a known Item identifier and no Section identifier.
C7_SingleSumBySectionOrItem ==
    JustRepaired =>
        \A i \in DOMAIN TreeNodes(prev) : \A x \in SingleArgs :
            Get(TreeNodes(prev)[i], "formula") = Str(SumCall(<<x>>)) =>
                /\ x \in KnownSections(prev)
                      => Get(TreeNodes(cir)[i], "formula") = Str("ScriptUtil.sum(" \o x \o ")")
                /\ (x \in KnownItems(prev) /\ x \notin KnownSections(prev))
                      => Get(TreeNodes(cir)[i], "formula") = Str(x \o ".p")

\* the markers of a prefill or macro text
MacroMarkers ==
    {"@pt", "@patient", "@ptCpp.", "ScriptUtil.", "firstTime", "daysSinceLastCompleted",
     "lastCompletedTag", "pt.", "$$"}

LooksLikeMacro(s) == StartsWith(Strip(s), "@") \/ \E m \in MacroMarkers : Contains(s, m)

IsLabelType(n) == IsStr(Get(n, "type")) /\ Upper(Get(n, "type").v) = "LABEL"

\* the prompt of the Item is what it was before the repair
LabelKept(before, after) ==
    Has(after, "label") = Has(before, "label") /\ Get(after, "label") = Get(before, "label")

\* the text of the Item has become its prompt
TextPromoted(before, after) ==
    Get(after, "label") = Str(Strip(Get(before, "text").v)) /\ Get(after, "text") = Null

NodeTags == {"section", "item", "picture", "video", "diagram"}

RECURSIVE NodeElements(_), NodeElementsIn(_, _)
\* the elements of Sections and Items below el, el included, in document order
NodeElements(el) ==
    (IF el.tag \in NodeTags THEN <<el>> ELSE <<>>) \o NodeElementsIn(el.children, 1)

NodeElementsIn(els, i) ==
    IF i > Len(els) THEN <<>> ELSE NodeElements(els[i]) \o NodeElementsIn(els, i + 1)

\* the value of attribute name on el is exactly vs
AttrIs(el, name, vs) == \E i \in DOMAIN el.attrib : el.attrib[i] = <<name, vs>>

AttrAbsent(el, name) == \A i \in DOMAIN el.attrib : el.attrib[i][1] # name

\* el has a child element tag
ChildrenOf(el, tag) == SelectSeq(el.children, LAMBDA ch : ch.tag = tag)

\* absent when unset, "false" when false, "true" when true
TriState(el, name, val) ==
    /\ val = Null => AttrAbsent(el, name)
    /\ val = Bool(FALSE) => AttrIs(el, name, "false")
    /\ val = Bool(TRUE) => AttrIs(el, name, "true")

\* the attribute bag of a Section
BagOf(n) == IF IsObj(Get(n, "attributes")) THEN Get(n, "attributes") ELSE EmptyObj

\* C9: in the composed XML, ownLine and quoteAnswer of an Item and groupItems,
\* quoteAnswers and ownLine of a Section are absent when the value is unset, "false"
\* when it is false and "true" when it is true.
C9_BooleanAttributesTriState ==
    pc = "composed" =>
        \A i \in DOMAIN TreeNodes(cir) :
            /\ IsItem(TreeNodes(cir)[i]) =>
                  \A name \in {"ownLine", "quoteAnswer"} :
                      TriState(NodeElements(root)[i], name, Get(TreeNodes(cir)[i], name))
            /\ IsSection(TreeNodes(cir)[i]) =>
                  \A name \in {"groupItems", "quoteAnswers", "ownLine"} :
                      TriState(NodeElements(root)[i], name, Get(BagOf(TreeNodes(cir)[i]), name))

\* the name a field is written under
XmlName(key) ==
    CASE key = "label"  -> "c"
      [] key = "header" -> "c"
      [] key = "note"   -> "cNote"
      [] OTHER          -> key

\* the text a value is written as
XmlText(v) == IF IsBool(v) THEN (IF v.v THEN "true" ELSE "false") ELSE PyStr(v)

\* a field has a value to lose: a boolean, a text that is not blank, or another value
\* that is not empty
Populated(v) == IF IsStr(v) THEN Strip(v.v) # "" ELSE Truthy(v) \/ IsBool(v)

\* the field key of d is on el as an attribute or as a child element with its text
FieldWritten(el, d, key) ==
    \/ AttrIs(el, XmlName(key), XmlText(Get(d, key)))
    \/ \E k \in DOMAIN el.children :
          el.children[k].tag = XmlName(key) /\ el.children[k].text = XmlText(Get(d, key))

\* every populated field of d among keys is on el
FieldsWritten(el, d, keys) ==
    \A key \in keys \cap DOMAIN d.v : Populated(Get(d, key)) => FieldWritten(el, d, key)

\* the fields of an Item that are single values; its type is the tag of a media element
ItemValueKeys(n) ==
    DOMAIN n.v \ ({"kind", "choices", "validator", "hints", "dxCode"}
                  \cup (IF IsStr(Get(n, "type")) /\ Lower(Get(n, "type").v) \in NodeTags
                        THEN {"type"} ELSE {}))

\* the choices of an Item are on its element, each with every populated field
ChoicesWritten(el, n) ==
    Truthy(Get(n, "choices")) =>
        /\ Len(ChildrenOf(el, "choices")) = 1
        /\ Len(ChildrenOf(el, "choices")[1].children) = Len(Get(n, "choices").v)
        /\ \A k \in DOMAIN Get(n, "choices").v :
              FieldsWritten(ChildrenOf(el, "choices")[1].children[k], Get(n, "choices").v[k],
                            DOMAIN Get(n, "choices").v[k].v)

\* the validator of an Item is on its element with every populated field
ValidatorWritten(el, n) ==
    (IsObj(Get(n, "validator")) /\ \E key \in DOMAIN Get(n, "validator").v : Populated(Get(n, "validator").v[key])) =>
        /\ Len(ChildrenOf(el, "validator")) = 1
        /\ FieldsWritten(ChildrenOf(el, "validator")[1], Get(n, "validator"), DOMAIN Get(n, "validator").v)

\* the packed diagnosis code of an Item is on its element, no part of it missing
DxCodeWritten(el, n) ==
    Truthy(Get(n, "dxCode")) =>
        /\ Len(ChildrenOf(el, "dxCode")) = 1
        /\ \A k \in DOMAIN Split(Get(n, "dxCode").v, "|") :
              \E a \in DOMAIN ChildrenOf(el, "dxCode")[1].attrib :
                  ChildrenOf(el, "dxCode")[1].attrib[a][2] = Split(Get(n, "dxCode").v, "|")[k]

\* the hints of a node are on its element, in order
HintsWritten(el, n) ==
    Truthy(Get(n, "hints")) =>
        /\ Len(ChildrenOf(el, "hints")) = 1
        /\ [k \in DOMAIN ChildrenOf(el, "hints")[1].children |-> Str(ChildrenOf(el, "hints")[1].children[k].text)]
              = Get(n, "hints").v

ItemWritten(el, n) ==
    /\ FieldsWritten(el, n, ItemValueKeys(n))
    /\ ChoicesWritten(el, n)
    /\ ValidatorWritten(el, n)
    /\ DxCodeWritten(el, n)
    /\ HintsWritten(el, n)

SectionWritten(el, n) ==
    /\ FieldsWritten(el, n, DOMAIN n.v \ {"kind", "items", "attributes", "hints"})
    /\ FieldsWritten(el, BagOf(n), DOMAIN BagOf(n).v)
    /\ HintsWritten(el, n)

FormWritten(el, c) ==
    /\ FieldsWritten(el, Get(c, "meta"), DOMAIN Get(c, "meta").v)
    /\ FieldsWritten(el, c, DOMAIN c.v \ {"meta", "sections"})

\* C10: composing an accepted tree loses no populated field: every non-empty field of
\* the Form, a Section, an Item of any type, a Choice or a Validator is in the XML as
\* the corresponding attribute or child element.
C10_ComposeLosesNoPopulatedField ==
    pc = "composed" =>
        /\ FormWritten(root, cir)
        /\ Len(NodeElements(root)) = Len(TreeNodes(cir))
        /\ \A i \in DOMAIN TreeNodes(cir) :
              /\ IsItem(TreeNodes(cir)[i]) => ItemWritten(NodeElements(root)[i], TreeNodes(cir)[i])
              /\ IsSection(TreeNodes(cir)[i]) => SectionWritten(NodeElements(root)[i], TreeNodes(cir)[i])

\* where pat first stands in s, 0 when it stands nowhere
FirstAt(s, pat) ==
    LET hits == {i \in 1..Len(s) : Sub(s, i, i + Len(pat) - 1) = pat}
    IN  IF hits = {} THEN 0 ELSE CHOOSE i \in hits : \A j \in hits : i <= j

\* the start of the tag a Section or an Item with an identifier is written with
StartTag(n) ==
    "<" \o (IF IsSection(n) THEN "section"
            ELSE IF Upper(Get(n, "type").v) \in MediaTypes THEN Lower(Get(n, "type").v) ELSE "item")
        \o " ref=\"" \o Get(n, "ref").v \o "\""

\* the texts of pats stand in s one after the other, as far as they differ
InOrder(s, pats) ==
    \A i, j \in DOMAIN pats :
        (i < j /\ pats[i] # pats[j]) => (0 < FirstAt(s, pats[i]) /\ FirstAt(s, pats[i]) < FirstAt(s, pats[j]))

ChoiceTags(n) ==
    [k \in DOMAIN Elems(Get(n, "choices")) |-> "<choice val=\"" \o Get(Elems(Get(n, "choices"))[k], "val").v \o "\""]

HintTags(n) == [k \in DOMAIN Elems(Get(n, "hints")) |-> "<hint>" \o Elems(Get(n, "hints"))[k].v \o "</hint>"]

ScenarioNode(c) == TreeNodes(c)[2]

\* C12: for a top-level Section holding one MENU Item with no identifier, a prompt and 3
\* to 6 choices that lack display and points and have numeric value tokens, repair and
\* validation give the Item an identifier generated from the slug of its prompt, give
\* every choice display = its value token and points = the number the token reads as,
\* and attach the hint USE_DROPDOWN_MENU.
C12_MenuScenarioRepaired ==
    (pc = "validated" /\ repairs = 1 /\ input \in ScenarioForms) =>
        /\ StartsWith(Get(ScenarioNode(cir), "ref").v, "Pain_level_")
        /\ \A k \in DOMAIN Get(ScenarioNode(cir), "choices").v :
              /\ Get(Get(ScenarioNode(cir), "choices").v[k], "display")
                    = Get(Get(ScenarioNode(input), "choices").v[k], "val")
              /\ Get(Get(ScenarioNode(cir), "choices").v[k], "points")
                    = Float(DigitsValue(Get(Get(ScenarioNode(input), "choices").v[k], "val").v, 0), "")
        /\ Str("USE_DROPDOWN_MENU") \in {Elems(Get(ScenarioNode(cir), "hints"))[h] :
                                            h \in DOMAIN Elems(Get(ScenarioNode(cir), "hints"))}

\* C13: every correction the repair passes make to the tree appends an entry to the
\* issues list returned to the caller: whenever the returned tree differs from the input
\* tree, the returned issues list is not empty.
C13_ChangedTreeHasIssues ==
    (pc = "validated" /\ cir # input) => issues # <<>>

\* C14: compose_xml is invoked only after validate_and_normalize_cir has returned
\* ok = true for the request; when ok = false the endpoint responds with status 400
\* carrying the full issues list, and compose_xml is never invoked.
C14_ComposeOnlyAfterAccepted ==
    /\ [](pc = "composed" => (ok /\ response.status = "200" /\ response.body = xml))
    /\ [](pc = "rejected" => (/\ ~ok
                              /\ response.status = "400"
                              /\ response.issues = issues
                              /\ root = Element("")
                              /\ xml = ""))
    /\ [][(root' # root \/ xml' # xml) => (pc = "validated" /\ ok)]_vars
    /\ [][(pc = "validated" /\ ~ok) => (pc' = "rejected" /\ response'.status = "400")]_vars

\* a rejected request whose issues, more than one, are all in the response
C14_RejectedWithIssues ==
    pc = "rejected" /\ Len(issues) >= 2 /\ response = [status |-> "400", issues |-> issues]

\* what a request with this tree gets when it runs alone
Alone(tree) == validate_and_normalize_cir(auto_repair_cir(tree))

\* the request q is where it would be had it run alone
AsAlone(q) ==
    /\ q.pc = "received" => q.cir = q.input
    /\ q.pc = "repaired" => q.cir = auto_repair_cir(q.input)
    /\ q.pc \in {"validated", "rejected", "composed"} =>
          (q.cir = Alone(q.input).cir /\ q.ok = Alone(q.input).ok /\ q.issues = Alone(q.input).issues)
    /\ q.pc = "composed" => q.xml = compose_xml(Alone(q.input).cir)
    /\ q.pc # "composed" => q.xml = ""

ShowIf(n) == Get(n, "showIf")

\* the comparison with the suffix dot on its left-hand side
Suffixed(x, dot, op, rhs) == Comparison(x \o dot, op, rhs)

\* C16: a bare known Item identifier followed by a comparison operator gets .p when the
\* right-hand side is a numeric literal and .r when it is a quoted string, whatever the
\* string holds, or one of the tokens y/n/u/yes/no/true/false; an identifier with neither
\* a comparator nor an arithmetic operator next to it gets .r.
C16_ComparisonSuffixByRightHandSide ==
    JustRepaired =>
        \A i \in DOMAIN TreeNodes(prev) : \A x \in KnownItems(prev) :
            /\ \A op \in Comparators :
                  /\ \A rhs \in NumericRhs :
                        ShowIf(TreeNodes(prev)[i]) = Str(Comparison(x, op, rhs))
                        => ShowIf(TreeNodes(cir)[i]) = Str(Suffixed(x, ".p", op, rhs))
                  /\ \A rhs \in QuotedRhs \cup BooleanRhs :
                        ShowIf(TreeNodes(prev)[i]) = Str(Comparison(x, op, rhs))
                        => ShowIf(TreeNodes(cir)[i]) = Str(Suffixed(x, ".r", op, rhs))
            /\ ShowIf(TreeNodes(prev)[i]) = Str(x) => ShowIf(TreeNodes(cir)[i]) = Str(x \o ".r")

\* C17: every bare known Item identifier with an arithmetic operator on either side gets
\* .p, both operands of x + y included; an identifier that has an arithmetic operator on
\* one side and a string comparison on the other gets .p as well.
C17_ArithmeticContextGivesPoints ==
    JustRepaired =>
        \A i \in DOMAIN TreeNodes(prev) : \A x, y \in KnownItems(prev) :
            /\ Get(TreeNodes(prev)[i], "formula") = Str(x \o " + " \o y)
                  => Get(TreeNodes(cir)[i], "formula") = Str(x \o ".p + " \o y \o ".p")
            /\ ShowIf(TreeNodes(prev)[i]) = Str(y \o " + " \o x \o " == 'yes'")
                  => ShowIf(TreeNodes(cir)[i]) = Str(y \o ".p + " \o x \o ".p == 'yes'")
            /\ ShowIf(TreeNodes(prev)[i]) = Str("2 * " \o x)
                  => ShowIf(TreeNodes(cir)[i]) = Str("2 * " \o x \o ".p")

\* the arguments of SUM that name neither an Item nor a Section of the tree
UnknownArgs(c) == {"zz", "x"} \ (KnownItems(c) \cup KnownSections(c))

\* the formula f gives the argument z no suffix
Unsuffixed(f, z) == IsStr(f) /\ FirstAt(f.v, z) > 0 /\ FirstAt(f.v, z \o ".p") = 0 /\ FirstAt(f.v, z \o ".r") = 0

\* C18: an argument of SUM(...) that is neither a known Item identifier nor a known
\* Section identifier comes out of the rewrite without a .p or .r suffix, alone in the
\* call or with other arguments.
C18_UnknownSumArgumentUnchanged ==
    JustRepaired =>
        \A i \in DOMAIN TreeNodes(prev) : \A z \in UnknownArgs(prev) :
            /\ Get(TreeNodes(prev)[i], "formula") = Str(SumCall(<<z>>))
                  => Unsuffixed(Get(TreeNodes(cir)[i], "formula"), z)
            /\ Get(TreeNodes(prev)[i], "formula") = Str("SUM(q1, " \o z \o ")")
                  => Unsuffixed(Get(TreeNodes(cir)[i], "formula"), z)

\* validate_and_normalize_cir has just run: prev is the tree it was given and cir the
\* tree it returned, whose nodes stand at the same places
JustValidated == pc = "validated" /\ Len(TreeNodes(prev)) = Len(TreeNodes(cir))

\* the Item at place i got a new identifier: generated, or rewritten
RefRewritten(i) ==
    /\ IsItem(TreeNodes(cir)[i])
    /\ Get(TreeNodes(cir)[i], "ref") # Get(TreeNodes(prev)[i], "ref")

\* the identifier at place i differs from the identifier of every Item before it
RefFresh(i) ==
    \A j \in 1..(i - 1) :
        IsItem(TreeNodes(cir)[j]) => Get(TreeNodes(cir)[j], "ref") # Get(TreeNodes(cir)[i], "ref")

\* C19: an identifier generated for an Item that has none and an identifier rewritten
\* because it fails the pattern check both differ from the identifier of every Item that
\* precedes them in document order.
C19_NewRefsDifferFromEarlierItems ==
    JustValidated => \A i \in DOMAIN TreeNodes(cir) : RefRewritten(i) => RefFresh(i)

\* the generated identifiers, taken alone, do differ from those of the Items before them
C19_GeneratedRefsDiffer ==
    JustValidated =>
        \A i \in DOMAIN TreeNodes(cir) :
            (RefRewritten(i) /\ ~Truthy(Get(TreeNodes(prev)[i], "ref"))) => RefFresh(i)

\* the values of meta that have a default
MetaKeys == {"noteVersion", "noteType", "dataSecurityMode"}

\* the tree c has no meta object, or a meta object without the key k
Omitted(c, k) == ~IsObj(Get(c, "meta")) \/ ~Has(Get(c, "meta"), k)

\* the meta object of c holds a value under k
Carried(c, k) == IsObj(Get(c, "meta")) /\ Has(Get(c, "meta"), k) /\ Get(Get(c, "meta"), k) # Null

\* C20: after the repair of the Form (auto_repair_cir, then the defaults of
\* validate_and_normalize_cir), meta carries a version number, a note type and a data
\* security mode whenever the input left them out, the input without any meta object
\* included: the default of each missing value is stored in the returned tree.
C20_MetaDefaultsInjected ==
    (pc = "validated" /\ repairs >= 1) =>
        \A k \in MetaKeys : Omitted(input, k) => Carried(cir, k)

\* the version number, taken alone, is stored once auto_repair_cir has made the meta object
C20_NoteVersionDefaulted ==
    (pc = "validated" /\ repairs >= 1) => Carried(cir, "noteVersion")

\* the display category a Section states: the one in its attribute bag, else the one at
\* its top level
Category(n) ==
    IF IsObj(Get(n, "attributes")) /\ Truthy(Get(Get(n, "attributes"), "subcategory"))
    THEN Get(Get(n, "attributes"), "subcategory")
    ELSE Get(n, "subcategory")

\* the display category in the attribute bag of a Section
BagCategory(n) == IF IsObj(Get(n, "attributes")) THEN Get(Get(n, "attributes"), "subcategory") ELSE Null

\* C21: after repair the display category is defaulted to QUESTIONNAIRE on the first
\* top-level Section alone, when it states none; a later top-level Section and a nested
\* Section that state none still have none, and a stated category is never changed.
C21_CategoryDefaultOnFirstSectionOnly ==
    JustRepaired =>
        \A i \in DOMAIN TreeNodes(cir) :
            IsSection(TreeNodes(cir)[i]) =>
                /\ Truthy(Category(TreeNodes(prev)[i]))
                      => BagCategory(TreeNodes(cir)[i]) = Category(TreeNodes(prev)[i])
                /\ (~Truthy(Category(TreeNodes(prev)[i])) /\ i = 1)
                      => BagCategory(TreeNodes(cir)[i]) = Str("QUESTIONNAIRE")
                /\ (~Truthy(Category(TreeNodes(prev)[i])) /\ i # 1)
                      => (BagCategory(TreeNodes(cir)[i]) = Null /\ Get(TreeNodes(cir)[i], "subcategory") = Null)

\* a tree of three Sections without category has been repaired: the first one has
\* QUESTIONNAIRE, the nested one and the second top-level one have none
C21_FirstDefaultedOthersBare ==
    /\ JustRepaired
    /\ input \in CategoryForms
    /\ \A i \in {1, 3, 5} : IsSection(TreeNodes(cir)[i]) /\ ~Truthy(Category(TreeNodes(prev)[i]))
    /\ BagCategory(TreeNodes(cir)[1]) = Str("QUESTIONNAIRE")
    /\ BagCategory(TreeNodes(cir)[3]) = Null
    /\ BagCategory(TreeNodes(cir)[5]) = Null

\* the top-level Sections of a tree
TopSections(c) == Elems(Get(c, "sections"))

\* the value the attribute bag of Section n holds under k
BagValue(n, k) == IF IsObj(Get(n, "attributes")) THEN Get(Get(n, "attributes"), k) ELSE Null

\* the object d without the keys ks
Without(d, ks) == Obj([j \in DOMAIN d.v \ ks |-> d.v[j]])

\* the attribute fields of Section n given at its top level have been merged into the
\* bag of the repaired Section m, a non-empty value of the bag first; the two conditions
\* arrive as the expression repairer leaves them
MergedIntoBag(n, m) ==
    \A k \in SectionAttrKeys :
        (Has(n, k) /\ ~NoneOrEmpty(Get(n, k))) =>
            IF k \in {"showIf", "makeNoteIf"}
            THEN ~NoneOrEmpty(BagValue(m, k))
            ELSE BagValue(m, k) = (IF ~NoneOrEmpty(BagValue(n, k)) THEN BagValue(n, k) ELSE Get(n, k))

\* C22: a Section that gives attribute fields at its top level instead of in its
\* attribute bag is tolerated: after repair each such field is in the bag with its value
\* (a non-empty value already in the bag first), and the repaired Section, conformant
\* but for those fields, has no schema violation.
C22_TopLevelAttributesTolerated ==
    JustRepaired =>
        \A i \in DOMAIN TopSections(cir) :
            IsObj(TopSections(cir)[i]) =>
                /\ MergedIntoBag(TopSections(prev)[i], TopSections(cir)[i])
                /\ Validate(SectionS, Without(TopSections(cir)[i], SectionAttrKeys), "") = <<>>
                      => Validate(SectionS, TopSections(cir)[i], "") = <<>>

\* the fields, taken alone, do arrive in the attribute bag
C22_FieldsMergedIntoBag ==
    JustRepaired =>
        \A i \in DOMAIN TopSections(cir) :
            IsObj(TopSections(cir)[i]) => MergedIntoBag(TopSections(prev)[i], TopSections(cir)[i])

\* the hints of a node, as a set
HintsOf(n) == {Elems(Get(n, "hints"))[k] : k \in 1..Len(Elems(Get(n, "hints")))}

\* the node is a menu Item with choices
IsMenu(n) ==
    /\ IsItem(n)
    /\ IsStr(Get(n, "type"))
    /\ Upper(Get(n, "type").v) \in {"MENU", "MENU_MULTI_SELECT"}
    /\ IsList(Get(n, "choices"))

\* the size hint of a menu of L choices, or Null for a menu of fewer than three
SizeHint(L) ==
    IF L >= 7 THEN Str("USE_SEARCHABLE_MENU") ELSE IF L >= 3 THEN Str("USE_DROPDOWN_MENU") ELSE Null

\* the menu-presentation hints other than add
Conflicting(add) ==
    {Str("USE_BUTTONS_FOR_MENU"), Str("USE_SEARCHABLE_MENU"), Str("USE_DROPDOWN_MENU")} \ {add}

\* the hints the heuristic owes a menu of L choices that carries the hints H
HintsOwed(L, H) ==
    IF SizeHint(L) # Null /\ H \cap Conflicting(SizeHint(L)) = {} THEN H \cup {SizeHint(L)} ELSE H

\* C23: the menu-size heuristic attaches USE_SEARCHABLE_MENU to a menu of 7 or more
\* choices and USE_DROPDOWN_MENU to a menu of 3 to 6 choices; it attaches nothing when
\* the Item already carries USE_BUTTONS_FOR_MENU or the other size hint, and nothing to a
\* menu of fewer than 3 choices.
C23_MenuSizeHintUnlessConflict ==
    JustValidated =>
        \A i \in DOMAIN TreeNodes(cir) :
            IsMenu(TreeNodes(prev)[i]) =>
                HintsOf(TreeNodes(cir)[i])
                    = HintsOwed(Len(Get(TreeNodes(prev)[i], "choices").v), HintsOf(TreeNodes(prev)[i]))

\* the hint is attached to the menus that carry no menu-presentation hint, and to no
\* menu of fewer than 3 choices
C23_MenuSizeHintWithoutConflict ==
    JustValidated =>
        \A i \in DOMAIN TreeNodes(cir) :
            (IsMenu(TreeNodes(prev)[i])
             /\ HintsOf(TreeNodes(prev)[i]) \cap Conflicting(Null) = {})
            => HintsOf(TreeNodes(cir)[i])
                   = HintsOwed(Len(Get(TreeNodes(prev)[i], "choices").v), HintsOf(TreeNodes(prev)[i]))

\* the keywords and the validator kind each one calls for
KeywordKinds ==
    {<<"email", "EMAIL">>, <<"e-mail", "EMAIL">>, <<"phone", "PHONE">>, <<"telephone", "PHONE">>,
     <<"cell", "PHONE">>, <<"postal", "POSTAL_CODE">>, <<"zip", "POSTAL_CODE">>}

\* the string under key of node n holds the keyword kw
Mentions(n, key, kw) == IsStr(Get(n, key)) /\ Contains(Lower(Get(n, key).v), kw)

\* the kind of the validator of a node, Null without one
ValidatorKind(n) == IF IsObj(Get(n, "validator")) THEN Get(Get(n, "validator"), "type") ELSE Null

\* every Item without validator whose string under key holds a keyword leaves the
\* heuristic pass with a validator of the kind of (one of) its keywords
KeywordValidatorBy(key) ==
    \A i \in DOMAIN TreeNodes(cir) :
        (/\ IsItem(TreeNodes(prev)[i])
         /\ ~Truthy(Get(TreeNodes(prev)[i], "validator"))
         /\ \E kk \in KeywordKinds : Mentions(TreeNodes(prev)[i], key, kk[1]))
        => \E kk \in KeywordKinds :
              /\ Mentions(TreeNodes(prev)[i], key, kk[1])
              /\ ValidatorKind(TreeNodes(cir)[i]) = Str(kk[2])

\* C24: every Item whose patient-visible prompt (its label) holds an email, phone or
\* postal keyword and that has no validator gets a validator of kind EMAIL, PHONE or
\* POSTAL_CODE from the heuristic pass.
C24_KeywordInLabelGetsValidator == JustValidated => KeywordValidatorBy("label")

\* the keyword is found in the text of the Item
C24_KeywordInTextGetsValidator == JustValidated => KeywordValidatorBy("text")

\* the nodes of the tree validate_and_normalize_cir hands to the heuristic pass
BeforeHeuristics == TreeNodes(normalize_enums_and_defaults(prev).cir)

\* the Item has a validator with a kind
HasKind(n) == IsItem(n) /\ IsObj(Get(n, "validator")) /\ Truthy(Get(Get(n, "validator"), "type"))

\* C25: the keyword-validator heuristic only adds: every Item that already has a
\* validator with a kind leaves the heuristic pass with the same validator (kind, format,
\* message, allow-empty flag and condition), also when several keywords match the Item.
C25_ExplicitValidatorUntouched ==
    JustValidated =>
        \A i \in DOMAIN TreeNodes(cir) :
            HasKind(BeforeHeuristics[i])
            => Get(TreeNodes(cir)[i], "validator") = Get(BeforeHeuristics[i], "validator")

\* an Item whose text holds an email and a phone keyword went through the heuristic pass
\* with its REG_EXP validator
C25_TwoKeywordsValidatorKept ==
    /\ JustValidated
    /\ \E i \in DOMAIN TreeNodes(cir) :
          /\ Mentions(TreeNodes(cir)[i], "text", "email")
          /\ Mentions(TreeNodes(cir)[i], "text", "phone")
          /\ HasKind(BeforeHeuristics[i])
          /\ Get(TreeNodes(cir)[i], "validator") \in GivenValidators
          /\ ValidatorKind(TreeNodes(cir)[i]) = Str("REG_EXP")

\* C26: the Reference Collector only reads: _collect_refs leaves every node of the tree
\* as it was (no key added, removed or rewritten), and skips the Items and Sections whose
\* identifier is missing or null.
C26_CollectorLeavesTreeUnchanged ==
    (pc = "received" /\ ~AutoRepairRaises(cir)) =>
        \A i \in DOMAIN TopSections(cir) :
            /\ CollectKinds(TopSections(cir)[i]) = TopSections(cir)[i]
            /\ SectionRefs(TopSections(cir)[i]) \cup ItemRefs(TopSections(cir)[i])
                  \subseteq {Get(TreeNodes(cir)[k], "ref").v :
                                k \in {j \in DOMAIN TreeNodes(cir) : IsStr(Get(TreeNodes(cir)[j], "ref"))}}

\* the identifiers collected are identifiers of the tree: nodes without one are skipped
C26_CollectorSkipsMissingRefs ==
    (pc = "received" /\ ~AutoRepairRaises(cir)) =>
        \A i \in DOMAIN TopSections(cir) :
            /\ Str("") \notin {Str(r) : r \in SectionRefs(TopSections(cir)[i]) \cup ItemRefs(TopSections(cir)[i])}
            /\ SectionRefs(TopSections(cir)[i]) \cup ItemRefs(TopSections(cir)[i])
                  \subseteq {Get(TreeNodes(cir)[k], "ref").v :
                                k \in {j \in DOMAIN TreeNodes(cir) : IsStr(Get(TreeNodes(cir)[j], "ref"))}}

\* the choices of a node
ChoicesOf(n) == Elems(Get(n, "choices"))

\* C27: in every accepted tree no value token of a Choice holds the packing separator |.
C27_AcceptedValuesWithoutSeparator ==
    (Settled /\ ok) =>
        \A i \in DOMAIN TreeNodes(cir) : \A k \in DOMAIN ChoicesOf(TreeNodes(cir)[i]) :
            IsStr(Get(ChoicesOf(TreeNodes(cir)[i])[k], "val"))
            => ~Contains(Get(ChoicesOf(TreeNodes(cir)[i])[k], "val").v, "|")

\* C28: repair keeps a valid tree valid: when the tree given to auto_repair_cir satisfies
\* the schema, validate_against_schema reports no violation on the tree it returns.
C28_RepairPreservesSchemaValidity ==
    (JustRepaired /\ validate_against_schema(prev) = <<>>) => validate_against_schema(cir) = <<>>

\* a suffix chained to a suffix
ChainedSuffixes == {".p.p", ".p.r", ".r.p", ".r.r"}

\* the expression g holds no chained suffix that f did not hold
NoNewChain(f, g) ==
    (IsStr(f) /\ IsStr(g)) => \A ch \in ChainedSuffixes : Contains(g.v, ch) => Contains(f.v, ch)

\* the expressions of a node: its formula and its conditions, where they are strings
ExpressionsOf(n) == {v \in {Get(n, "formula"), Get(n, "showIf"), Get(n, "makeNoteIf")} : IsStr(v)}

\* _normalize_expr leaves the suffixed references of e alone, for the known identifiers known
SuffixesKept(e, known) ==
    /\ NoNewChain(e, Str(_normalize_expr(e.v, known)))
    /\ e = Str("q1.p + q2.p") => _normalize_expr(e.v, known) = "q1.p + q2.p"

\* C29: the Expression Repairer never gives a reference a second suffix: whatever the
\* known Item identifiers are (identifiers named p or r included), an occurrence x.p or
\* x.r of the input is left as it is, and the output of _normalize_expr holds no chained
\* suffix (.p.p, .p.r, .r.p, .r.r) that the input did not hold.
C29_NoDoubleSuffix ==
    \A i \in DOMAIN TreeNodes(cir) : \A e \in ExpressionsOf(TreeNodes(cir)[i]) :
        SuffixesKept(e, KnownItems(cir))

\* with no Item named p or r the suffixed references are left alone
C29_NoDoubleSuffixPlainNames ==
    KnownItems(cir) \cap {"p", "r"} = {} =>
        \A i \in DOMAIN TreeNodes(cir) : \A e \in ExpressionsOf(TreeNodes(cir)[i]) :
            SuffixesKept(e, KnownItems(cir))

\* the places of the Items of tree c that are given an identifier
GivenAt(c) == {i \in DOMAIN TreeNodes(c) : IsItem(TreeNodes(c)[i]) /\ Truthy(Get(TreeNodes(c)[i], "ref"))}

\* the given Item identifiers of c match the identifier pattern and are pairwise distinct
GivenRefsClean(c) ==
    /\ \A i \in GivenAt(c) :
          IsStr(Get(TreeNodes(c)[i], "ref")) /\ REF_RE_match(Get(TreeNodes(c)[i], "ref").v)
    /\ \A i, j \in GivenAt(c) : i # j => Get(TreeNodes(c)[i], "ref") # Get(TreeNodes(c)[j], "ref")

\* C30: identifier generation never makes a duplicate: when the Item identifiers given
\* in the input are pairwise distinct and match the identifier pattern, the Item
\* identifiers after normalize_enums_and_defaults, given and generated, are pairwise
\* distinct, wherever the Items without identifier stand.
C30_GenerationMakesNoDuplicate ==
    (JustValidated /\ GivenRefsClean(prev)) => RepeatedRefs(cir) = {}

\* the Items without identifier stand after all the Items that are given one
C30_GenerationAfterGivenRefs ==
    (JustValidated /\ GivenRefsClean(prev)
     /\ \A i \in GivenAt(prev) : \A j \in DOMAIN TreeNodes(prev) :
           (IsItem(TreeNodes(prev)[j]) /\ j \notin GivenAt(prev)) => i < j)
    => RepeatedRefs(cir) = {}
====
